---------------------------- MODULE Spec2Model ----------------------------
(***************************************************************************)
(* BookForge: text -> chapters -> chunks -> per-chunk synthesis -> index   *)
(* -> per-chapter and book stitch, plus the review of one chunk.           *)
(*                                                                         *)
(* A Python str is a sequence of one-character strings; "\n" is the line   *)
(* separator.  estimated_seconds is kept exactly, in eighths of a second   *)
(* (words / 160.0 * 60.0 = words * 3 / 8), and target_chunk_secs is        *)
(* compared in the same unit.                                              *)
(***************************************************************************)
EXTENDS Integers, Sequences, FiniteSets, TLC

VARIABLES
    \* --- chunk_chapter called on its own (SpecChunk) ---
    cc_args,        \* the arguments of the calls: chapter_text, target, chapter_index, starting_chunk_id
    cc_cells,       \* the closure cells as the last call left them
    cc_ret          \* the lists returned so far, one per call

VARIABLES
    \* --- the project directory ---
    chunks_dir,     \* chunks/: file name -> audio, for the chunk WAVs that exist
    chapters_dir,   \* chapters/: file name -> audio, for the chapter WAVs that exist
    book_wav,       \* book.wav: [present, audio]
    \* --- the running command ---
    pc,             \* where the running command stands; "idle" when none runs
    outcome,        \* how the last command ended
    rb,             \* arguments and locals of _rebuild_audio_from_index
    stitch_log,     \* the concat_wavs calls of the running (or last) command, in order
    before          \* the project directory as it was when the rebuild started

VARIABLES
    \* --- the commands process and review ---
    source_text,    \* the text of the input file
    index_file,     \* project.json: [exists, data]
    meta_file,      \* meta.json: [exists, data]
    cmd,            \* arguments and locals of the running (or last) command
    synth_log,      \* the synthesize_chunk calls of the running (or last) command, in order
    hist,           \* the process pass that wrote project.json: its settings, chapters and chunks
    commands        \* the number of commands started

VARIABLES
    \* --- direct calls of the detector, the loader and the project files ---
    dt_args,        \* text, strategy and min_confidence of the detection
    dt_ret,         \* <<>> before the call, then what detect and load_txt returned
    pj_log          \* the save and load calls on the project files, in order

cc_vars == <<cc_args, cc_cells, cc_ret>>
call_vars == <<dt_args, dt_ret, pj_log>>
disk_vars == <<chunks_dir, chapters_dir, book_wav>>
rebuild_vars == <<pc, outcome, rb, stitch_log, before>>
run_vars == <<source_text, index_file, meta_file, cmd, synth_log, hist, commands>>
vars == <<cc_vars, disk_vars, rebuild_vars, run_vars, call_vars>>

-----------------------------------------------------------------------------
(* Bounds of the model *)

MaxParas == 3          \* blank-line separated pieces of a generated chapter text
MaxTarget == 3         \* target_chunk_secs ranges over 1..MaxTarget
MaxChapterIndex == 2   \* chapter_index argument ranges over 0..MaxChapterIndex
MaxStartId == 2        \* starting_chunk_id argument ranges over 0..MaxStartId
MaxCalls == 2          \* calls of chunk_chapter in a row
MaxIndexLen == 3       \* entries of a generated project index
MaxSkip == 3           \* skip_first_chunks ranges over 0..MaxSkip
ParaWords == 50        \* words of a paragraph of the chunking scenario

-----------------------------------------------------------------------------
(* str primitives *)

NL == "\n"
TAB == "\t"

\* str.isspace() / regex \s, for the characters of the model's texts
IsSpace(c) == c \in {" ", NL, TAB}

Lower == {"a", "b", "c", "d", "e", "f", "g", "h", "i", "j", "k", "l", "m",
          "n", "o", "p", "q", "r", "s", "t", "u", "v", "w", "x", "y", "z"}
Upper == {"A", "B", "C", "D", "E", "F", "G", "H", "I", "J", "K", "L", "M",
          "N", "O", "P", "Q", "R", "S", "T", "U", "V", "W", "X", "Y", "Z"}
Digit == {"0", "1", "2", "3", "4", "5", "6", "7", "8", "9"}

IsAlpha(c) == c \in Lower \cup Upper
IsDigit(c) == c \in Digit

UpperSeq == <<"A", "B", "C", "D", "E", "F", "G", "H", "I", "J", "K", "L", "M",
              "N", "O", "P", "Q", "R", "S", "T", "U", "V", "W", "X", "Y", "Z">>
LowerSeq == <<"a", "b", "c", "d", "e", "f", "g", "h", "i", "j", "k", "l", "m",
              "n", "o", "p", "q", "r", "s", "t", "u", "v", "w", "x", "y", "z">>

\* str.lower(), one character
LowerChar(c) ==
    IF c \in Upper THEN LowerSeq[CHOOSE k \in 1..Len(UpperSeq) : UpperSeq[k] = c] ELSE c

\* F(v) for the value v of e.  TLC evaluates the argument of an operator each
\* time the operator uses it; the variable of a set constructor holds a value.
Let(e, F(_)) == CHOOSE r \in { F(v) : v \in {e} } : TRUE

MapSeq(seq, F(_)) == Let(seq, LAMBDA v : [ i \in 1..Len(v) |-> F(v[i]) ])

\* str.lower()
lower(s) == MapSeq(s, LowerChar)

All(s, P(_)) == Let(s, LAMBDA v : \A i \in 1..Len(v) : P(v[i]))

\* sub in s
Contains(s, sub) ==
    Let(s, LAMBDA v : \E i \in 1..(Len(v) - Len(sub) + 1) : SubSeq(v, i, i + Len(sub) - 1) = sub)

\* s.startswith(prefix)
StartsWith(s, prefix) ==
    Let(s, LAMBDA v : Len(v) >= Len(prefix) /\ SubSeq(v, 1, Len(prefix)) = prefix)

\* s[n:]
From(s, n) == Let(s, LAMBDA v : SubSeq(v, n + 1, Len(v)))

\* the length of the longest prefix of s whose characters all satisfy P
PrefixLen(s, P(_)) ==
    Let(s, LAMBDA v : Cardinality({ n \in 1..Len(v) : \A i \in 1..n : P(v[i]) }))

\* the length of the longest suffix of s whose characters all satisfy P
SuffixLen(s, P(_)) ==
    Let(s, LAMBDA v : Cardinality({ n \in 1..Len(v) : \A i \in (Len(v) - n + 1)..Len(v) : P(v[i]) }))

lstrip(s) == Let(s, LAMBDA v : SubSeq(v, PrefixLen(v, IsSpace) + 1, Len(v)))

rstrip(s) == Let(s, LAMBDA v : SubSeq(v, 1, Len(v) - SuffixLen(v, IsSpace)))

strip(s) == rstrip(lstrip(s))

\* s.split(sep) for a non-empty separator: leftmost, non-overlapping matches
\* the least element of S that is at least p, and none when there is none
LeastFrom(S, p, none) ==
    Let({ x \in S : x >= p }, LAMBDA T :
        IF T = {} THEN none ELSE CHOOSE x \in T : \A y \in T : x <= y)

\* the pieces of s from index start on, found being the indices where sep occurs
RECURSIVE SplitAt(_, _, _, _)
SplitAt(s, sep, found, start) ==
    Let(LeastFrom(found, start, 0), LAMBDA i :
        IF i = 0
        THEN << SubSeq(s, start, Len(s)) >>
        ELSE << SubSeq(s, start, i - 1) >> \o SplitAt(s, sep, found, i + Len(sep)))

\* the indices of s at which sub occurs
Occurrences(s, sub) ==
    { i \in 1..(Len(s) - Len(sub) + 1) : SubSeq(s, i, i + Len(sub) - 1) = sub }

split(s, sep) ==
    Let(s, LAMBDA v : Let(Occurrences(v, sep), LAMBDA found : SplitAt(v, sep, found, 1)))

\* sep.join(parts[k:]), k from 0
RECURSIVE JoinFrom(_, _, _)
JoinFrom(parts, sep, k) ==
    IF k >= Len(parts) THEN <<>>
    ELSE IF k = Len(parts) - 1 THEN parts[k + 1]
    ELSE parts[k + 1] \o sep \o JoinFrom(parts, sep, k + 1)

\* sep.join(parts)
join(parts, sep) == Let(parts, LAMBDA v : JoinFrom(v, sep, 0))

\* len(s.split()): the number of maximal runs of non-whitespace characters
WordCount(s) ==
    Let(s, LAMBDA v : Cardinality({ i \in 1..Len(v) :
                                      /\ ~IsSpace(v[i])
                                      /\ (i = 1 \/ IsSpace(v[i - 1])) }))

-----------------------------------------------------------------------------
(* process/chunker.py *)

\* words / WORDS_PER_MINUTE * 60.0, in eighths of a second
_estimate_seconds(text) == WordCount(text) * 3

\* float(config.target_chunk_secs), in eighths of a second
TargetEighths(target_chunk_secs) == target_chunk_secs * 8

NonBlank(p) == strip(p) # <<>>

\* [p.strip() for p in chapter_text.split("\n\n") if p.strip()]
Paragraphs(chapter_text) ==
    MapSeq(SelectSeq(split(chapter_text, <<NL, NL>>), NonBlank), strip)

\* The cells the closure flush() shares with chunk_chapter.  Every call binds them
\* afresh; `left` is whatever an earlier call left behind, which no call reads.
cc_enter_stale(left, starting_chunk_id) ==
    IF left = <<>>
    THEN [chunks |-> <<>>, current_paras |-> <<>>,
          current_chunk_id |-> starting_chunk_id, rel_idx |-> 0]
    ELSE [left EXCEPT !.chunks = <<>>, !.current_paras = <<>>]

cc_enter(left, starting_chunk_id) ==
    [chunks |-> <<>>, current_paras |-> <<>>,
     current_chunk_id |-> starting_chunk_id, rel_idx |-> 0]

flush_keeps_rel_idx(cells, chapter_index) ==
    IF cells.current_paras = <<>>
    THEN cells
    ELSE LET text == join(cells.current_paras, <<NL, NL>>)
         IN  [chunks |-> Append(cells.chunks,
                                [id |-> cells.current_chunk_id,
                                 chapter_index |-> chapter_index,
                                 relative_index |-> cells.rel_idx,
                                 text |-> text,
                                 estimated_seconds |-> _estimate_seconds(text)]),
              current_paras |-> <<>>,
              current_chunk_id |-> cells.current_chunk_id + 1,
              rel_idx |-> cells.rel_idx]

flush(cells, chapter_index) ==
    IF cells.current_paras = <<>>
    THEN cells
    ELSE LET text == join(cells.current_paras, <<NL, NL>>)
         IN  [chunks |-> Append(cells.chunks,
                                [id |-> cells.current_chunk_id,
                                 chapter_index |-> chapter_index,
                                 relative_index |-> cells.rel_idx,
                                 text |-> text,
                                 estimated_seconds |-> _estimate_seconds(text)]),
              current_paras |-> <<>>,
              current_chunk_id |-> cells.current_chunk_id + 1,
              rel_idx |-> cells.rel_idx + 1]

\* the chunk is closed once it has reached the target
cc_para_flush_late(cells, para, target, chapter_index) ==
    IF /\ cells.current_paras # <<>>
       /\ _estimate_seconds(join(cells.current_paras, <<NL, NL>>)) > TargetEighths(target)
    THEN [flush(cells, chapter_index) EXCEPT !.current_paras = Append(@, para)]
    ELSE [cells EXCEPT !.current_paras = Append(@, para)]

\* the paragraph that closes a chunk is not carried into the next one
cc_para_drops_overflow(cells, para, target, chapter_index) ==
    IF /\ cells.current_paras # <<>>
       /\ _estimate_seconds(join(Append(cells.current_paras, para), <<NL, NL>>))
            > TargetEighths(target)
    THEN flush(cells, chapter_index)
    ELSE [cells EXCEPT !.current_paras = Append(@, para)]

\* one turn of `for para in paragraphs`
cc_para(cells, para, target, chapter_index) ==
    LET candidate == IF cells.current_paras # <<>>
                     THEN join(Append(cells.current_paras, para), <<NL, NL>>)
                     ELSE para
    IN  IF _estimate_seconds(candidate) > TargetEighths(target) /\ cells.current_paras # <<>>
        THEN LET flushed == flush(cells, chapter_index)
             IN  [flushed EXCEPT !.current_paras = Append(@, para)]
        ELSE [cells EXCEPT !.current_paras = Append(@, para)]

RECURSIVE cc_loop(_, _, _, _)
cc_loop(cells, paragraphs, target, chapter_index) ==
    IF paragraphs = <<>>
    THEN cells
    ELSE cc_loop(cc_para(cells, Head(paragraphs), target, chapter_index),
                 Tail(paragraphs), target, chapter_index)

\* the cells when chunk_chapter returns; .chunks is the returned list
cc_run(left, chapter_text, target, chapter_index, starting_chunk_id) ==
    Let(Paragraphs(chapter_text), LAMBDA paragraphs :
        flush(cc_loop(cc_enter(left, starting_chunk_id), paragraphs, target, chapter_index),
              chapter_index))

chunk_chapter(chapter_text, target, chapter_index, starting_chunk_id) ==
    cc_run(<<>>, chapter_text, target, chapter_index, starting_chunk_id).chunks

-----------------------------------------------------------------------------
(* Files of the project directory.  A chunk or chapter WAV is named by the    *)
(* digits its name is formatted from: the rest of the name is the same for    *)
(* every file of the directory.                                               *)

RECURSIVE Digits(_)
Digits(n) == IF n < 10 THEN <<n>> ELSE Append(Digits(n \div 10), n % 10)

RECURSIVE ZeroPad(_, _)
ZeroPad(ds, width) == IF Len(ds) >= width THEN ds ELSE ZeroPad(<<0>> \o ds, width)

\* f"{n:0{width}d}" for n >= 0
Fmt(n, width) == ZeroPad(Digits(n), width)

\* f"chunk_{id:05d}.wav"
ChunkWavName(id) == Fmt(id, 5)

\* f"chapter_{chapter_idx + 1:02d}.wav"
ChapterWavName(chapter_idx) == Fmt(chapter_idx + 1, 2)

\* Path.__lt__ on two files of one directory: the names compare as strings, and
\* where one number is a prefix of the other the "." that follows it sorts
\* before any digit
RECURSIVE PathLess(_, _)
PathLess(a, b) ==
    IF a = <<>> THEN b # <<>>
    ELSE IF b = <<>> THEN FALSE
    ELSE IF Head(a) # Head(b) THEN Head(a) < Head(b)
    ELSE PathLess(Tail(a), Tail(b))

IntLess(a, b) == a < b

\* sorted(): stable, ascending.  An element comes after every smaller one and
\* after every earlier one that is not greater.
SortedBy(seq, Less(_, _)) ==
    LET n == Len(seq)
        Rank(i) == 1 + Cardinality({ j \in 1..n :
                                       \/ Less(seq[j], seq[i])
                                       \/ j < i /\ ~Less(seq[i], seq[j]) })
    IN  [ r \in 1..n |-> seq[CHOOSE i \in 1..n : Rank(i) = r] ]

RECURSIVE Concat(_)
Concat(seqs) == IF seqs = <<>> THEN <<>> ELSE Head(seqs) \o Concat(Tail(seqs))

NoProject ==
    /\ chunks_dir = <<>>
    /\ chapters_dir = <<>>
    /\ book_wav = [present |-> FALSE, audio |-> <<>>]

NoRebuild ==
    [index |-> <<>>, skip_first_chunks |-> 0, sorted_meta |-> <<>>,
     chunks_by_chapter |-> <<>>, keys |-> <<>>, chapter_wavs |-> <<>>]

NoCommand ==
    /\ pc = "idle"
    /\ outcome = "none"
    /\ rb = NoRebuild
    /\ stitch_log = <<>>
    /\ before = <<>>

Snapshot == [chunks_dir |-> chunks_dir, chapters_dir |-> chapters_dir, book_wav |-> book_wav]

NoFile == [exists |-> FALSE, data |-> <<>>]
NoCmd == [name |-> "none"]
NoHist == [chapter_strategy |-> "", chapter_min_confidence |-> 0, chapters |-> <<>>, emitted |-> <<>>]

\* nothing is called directly
NoCalls ==
    /\ dt_args = <<>>
    /\ dt_ret = <<>>
    /\ pj_log = <<>>

\* no process or review command has run or runs
NoRun ==
    /\ source_text = <<>>
    /\ index_file = NoFile
    /\ meta_file = NoFile
    /\ cmd = NoCmd
    /\ synth_log = <<>>
    /\ hist = NoHist
    /\ commands = 0

-----------------------------------------------------------------------------
(* audio/concat.py *)

\* [p for p in wav_paths if p.exists()]
ExistingPaths(wav_paths, dir) == SelectSeq(wav_paths, LAMBDA p : p \in DOMAIN dir)

\* the audio ffmpeg's concat demuxer writes for the listed files
ChapterAudio(wav_list, dir) == MapSeq(wav_list, LAMBDA p : dir[p])
BookAudio(wav_list, dir) == Concat(MapSeq(wav_list, LAMBDA p : dir[p]))

-----------------------------------------------------------------------------
(* cli.py: _rebuild_audio_from_index *)

MetaIdLess(m1, m2) == m1.id < m2.id

\* sorted(index, key=lambda m: int(m["id"])), then [skip_first_chunks:] when > 0
SortedMeta(index, skip_first_chunks) ==
    LET sorted_meta == SortedBy(index, MetaIdLess)
    IN  IF skip_first_chunks > 0
        THEN SubSeq(sorted_meta, skip_first_chunks + 1, Len(sorted_meta))
        ELSE sorted_meta

\* wav_path.exists()
WavExists_always(fname, dir) == TRUE

WavExists(fname, dir) == fname \in DOMAIN dir

\* chunks_by_chapter.setdefault(chapter_idx, []).append(wav_path); a dict keeps
\* its keys in the order they were first set
SetDefaultAppend(by_chapter, chapter_idx, wav_path) ==
    IF \E i \in 1..Len(by_chapter) : by_chapter[i].chapter_idx = chapter_idx
    THEN [ i \in 1..Len(by_chapter) |->
             IF by_chapter[i].chapter_idx = chapter_idx
             THEN [by_chapter[i] EXCEPT !.files = Append(@, wav_path)]
             ELSE by_chapter[i] ]
    ELSE Append(by_chapter, [chapter_idx |-> chapter_idx, files |-> <<wav_path>>])

\* chunks_by_chapter.keys(), unsorted
ChapterKeys_unsorted(by_chapter) == MapSeq(by_chapter, LAMBDA e : e.chapter_idx)

\* sorted(chunks_by_chapter.keys())
ChapterKeys(by_chapter) ==
    SortedBy(MapSeq(by_chapter, LAMBDA e : e.chapter_idx), IntLess)

FilesOf(by_chapter, chapter_idx) ==
    (CHOOSE e \in { by_chapter[i] : i \in 1..Len(by_chapter) } :
        e.chapter_idx = chapter_idx).files

\* sorted(chunks_by_chapter[chapter_idx])
ChapterChunkFiles(by_chapter, chapter_idx) ==
    SortedBy(FilesOf(by_chapter, chapter_idx), PathLess)

\* `if chapter_wavs:`
BookWanted_always(chapter_wavs) == TRUE

BookWanted(chapter_wavs) == chapter_wavs # <<>>

\* the for loop over sorted_meta is over: on to the loop over the chapters
ScanOver(r) == [r EXCEPT !.keys = ChapterKeys(r.chunks_by_chapter)]

\* chapter_wavs is not emptied
rebuild_enter_keeps_chapter_wavs ==
    /\ pc = "rebuild"
    /\ IF rb.index = <<>>
       THEN /\ pc' = "idle"
            /\ outcome' = "nothing: index is empty"
            /\ UNCHANGED rb
       ELSE LET sorted_meta == SortedMeta(rb.index, rb.skip_first_chunks)
                entered == [rb EXCEPT !.sorted_meta = sorted_meta,
                                      !.chunks_by_chapter = <<>>]
            IN  /\ rb' = IF sorted_meta = <<>> THEN ScanOver(entered) ELSE entered
                /\ pc' = IF sorted_meta = <<>> THEN "rebuild_chapters" ELSE "rebuild_scan"
                /\ UNCHANGED outcome
    /\ UNCHANGED <<cc_vars, call_vars, run_vars, disk_vars, stitch_log, before>>

\* lines 28-37
rebuild_enter ==
    /\ pc = "rebuild"
    /\ IF rb.index = <<>>
       THEN /\ pc' = "idle"
            /\ outcome' = "nothing: index is empty"
            /\ UNCHANGED rb
       ELSE LET sorted_meta == SortedMeta(rb.index, rb.skip_first_chunks)
                entered == [rb EXCEPT !.sorted_meta = sorted_meta,
                                      !.chunks_by_chapter = <<>>,
                                      !.chapter_wavs = <<>>]
            IN  /\ rb' = IF sorted_meta = <<>> THEN ScanOver(entered) ELSE entered
                /\ pc' = IF sorted_meta = <<>> THEN "rebuild_chapters" ELSE "rebuild_scan"
                /\ UNCHANGED outcome
    /\ UNCHANGED <<cc_vars, call_vars, run_vars, disk_vars, stitch_log, before>>

\* lines 40-46, one entry of sorted_meta
rebuild_scan ==
    /\ pc = "rebuild_scan"
    /\ rb.sorted_meta # <<>>
    /\ LET meta == Head(rb.sorted_meta)
           scanned == [rb EXCEPT
                         !.sorted_meta = Tail(@),
                         !.chunks_by_chapter =
                             IF WavExists(meta.file, chunks_dir)
                             THEN SetDefaultAppend(@, meta.chapter_index, meta.file)
                             ELSE @]
       IN  /\ rb' = IF scanned.sorted_meta = <<>> THEN ScanOver(scanned) ELSE scanned
           /\ pc' = IF scanned.sorted_meta = <<>> THEN "rebuild_chapters" ELSE pc
    /\ UNCHANGED <<cc_vars, call_vars, run_vars, disk_vars, outcome, stitch_log, before>>

\* lines 49-57, one chapter: concat_wavs(chapter_chunk_files, chapter_wav)
rebuild_chapter ==
    /\ pc = "rebuild_chapters"
    /\ rb.keys # <<>>
    /\ LET chapter_idx == Head(rb.keys)
           chapter_chunk_files == ChapterChunkFiles(rb.chunks_by_chapter, chapter_idx)
           chapter_wav == ChapterWavName(chapter_idx)
           wav_list == ExistingPaths(chapter_chunk_files, chunks_dir)
       IN  /\ stitch_log' = Append(stitch_log,
                                   [output |-> "chapter", chapter_idx |-> chapter_idx,
                                    wav_paths |-> chapter_chunk_files,
                                    wav_list |-> wav_list,
                                    output_path |-> chapter_wav])
           /\ IF wav_list = <<>>
              THEN \* raise ValueError("No WAV files to concatenate.")
                   /\ pc' = "idle"
                   /\ outcome' = "error: ValueError"
                   /\ UNCHANGED <<rb, chapters_dir>>
              ELSE \E ffmpeg_ok \in BOOLEAN :
                     IF ffmpeg_ok
                     THEN /\ chapters_dir' =
                               (chapter_wav :> ChapterAudio(wav_list, chunks_dir)) @@ chapters_dir
                          /\ rb' = [rb EXCEPT !.keys = Tail(@),
                                              !.chapter_wavs = Append(@, chapter_wav)]
                          /\ UNCHANGED <<pc, outcome>>
                     ELSE /\ pc' = "idle"
                          /\ outcome' = "error: ffmpeg"
                          /\ UNCHANGED <<rb, chapters_dir>>
    /\ UNCHANGED <<cc_vars, call_vars, run_vars, chunks_dir, book_wav, before>>

\* lines 59-65: concat_wavs(chapter_wavs, book_wav)
rebuild_book ==
    /\ pc = "rebuild_chapters"
    /\ rb.keys = <<>>
    /\ IF BookWanted(rb.chapter_wavs)
       THEN LET wav_list == ExistingPaths(rb.chapter_wavs, chapters_dir)
            IN  /\ stitch_log' = Append(stitch_log,
                                        [output |-> "book", chapter_idx |-> -1,
                                         wav_paths |-> rb.chapter_wavs,
                                         wav_list |-> wav_list,
                                         output_path |-> <<>>])
                /\ pc' = "idle"
                /\ IF wav_list = <<>>
                   THEN /\ outcome' = "error: ValueError"
                        /\ UNCHANGED book_wav
                   ELSE \E ffmpeg_ok \in BOOLEAN :
                          IF ffmpeg_ok
                          THEN /\ book_wav' = [present |-> TRUE,
                                               audio |-> BookAudio(wav_list, chapters_dir)]
                               /\ outcome' = "rebuild complete"
                          ELSE /\ outcome' = "error: ffmpeg"
                               /\ UNCHANGED book_wav
       ELSE /\ pc' = "idle"
            /\ outcome' = "nothing: no chapter WAVs"
            /\ UNCHANGED <<stitch_log, book_wav>>
    /\ UNCHANGED <<cc_vars, call_vars, run_vars, chunks_dir, chapters_dir, rb, before>>

-----------------------------------------------------------------------------
(* SpecRebuild: _rebuild_audio_from_index on a project directory as an        *)
(* earlier pass may have left it                                              *)

\* Chunk ids on both sides of the first id whose name takes a sixth digit
IdPool == {1, 99999, 100000}

IndexEntries ==
    { [id |-> i, chapter_index |-> c, file |-> ChunkWavName(i)] :
        i \in IdPool, c \in 0..MaxChapterIndex }

RECURSIVE Indexes(_)
Indexes(n) ==
    IF n = 0 THEN { <<>> }
    ELSE LET shorter == Indexes(n - 1)
         IN  shorter \cup
             { Append(ix, e) :
                 ix \in { q \in shorter : Len(q) = n - 1 },
                 e \in IndexEntries }

DistinctIds(ix) == \A i, j \in 1..Len(ix) : i # j => ix[i].id # ix[j].id

IndexPool == { ix \in Indexes(MaxIndexLen) : DistinctIds(ix) }

ChunkAudio(fname) == <<"chunk", fname>>

StaleChapters == [ n \in { ChapterWavName(c) : c \in 0..MaxChapterIndex } |-> << <<"stale">> >> ]

RebuildInit ==
    /\ cc_args = <<>>
    /\ cc_cells = <<>>
    /\ cc_ret = <<>>
    /\ NoRun
    /\ NoCalls
    /\ \E ix \in IndexPool, skip \in 0..MaxSkip :
         /\ rb = [NoRebuild EXCEPT !.index = ix, !.skip_first_chunks = skip]
         /\ \E present \in SUBSET { ix[i].file : i \in 1..Len(ix) } :
              chunks_dir = [ f \in present |-> ChunkAudio(f) ]
    /\ \E stale \in BOOLEAN :
         /\ chapters_dir = IF stale THEN StaleChapters ELSE <<>>
         /\ book_wav = [present |-> stale, audio |-> IF stale THEN << <<"stale">> >> ELSE <<>>]
    /\ pc = "rebuild"
    /\ outcome = "none"
    /\ stitch_log = <<>>
    /\ before = Snapshot

RebuildNext ==
    \/ rebuild_enter
    \/ rebuild_scan
    \/ rebuild_chapter
    \/ rebuild_book

SpecRebuild == RebuildInit /\ [][RebuildNext]_vars

\* What the index, skip_first_chunks and the chunk files on disk at the start
\* of the rebuild say should be stitched
IndexEntriesOf(ix) == { ix[i] : i \in 1..Len(ix) }

\* the number of entries of the index with a smaller id
IdRank(e) == Cardinality({ o \in IndexEntriesOf(rb.index) : o.id < e.id })

Survivors(c) ==
    { e \in IndexEntriesOf(rb.index) :
        /\ e.chapter_index = c
        /\ IdRank(e) >= rb.skip_first_chunks
        /\ e.file \in DOMAIN before.chunks_dir }

SurvivingChapters ==
    { c \in { e.chapter_index : e \in IndexEntriesOf(rb.index) } : Survivors(c) # {} }

EntryOfFile(f) == CHOOSE e \in IndexEntriesOf(rb.index) : e.file = f

ChapterStitches == SelectSeq(stitch_log, LAMBDA call : call.output = "chapter")
BookStitches == SelectSeq(stitch_log, LAMBDA call : call.output = "book")

\* C7: every chapter's stitched list is in ascending id order of its index
\* entries and holds exactly the entries left after the skip whose file exists.
C7_StitchedInIdOrder ==
    \A n \in 1..Len(ChapterStitches) :
        LET call == ChapterStitches[n]
        IN  /\ { call.wav_paths[k] : k \in 1..Len(call.wav_paths) }
                 = { e.file : e \in Survivors(call.chapter_idx) }
            /\ Len(call.wav_paths) = Cardinality(Survivors(call.chapter_idx))
            /\ \A k, l \in 1..Len(call.wav_paths) :
                 k < l => EntryOfFile(call.wav_paths[k]).id < EntryOfFile(call.wav_paths[l]).id

\* C8: chapters are stitched in ascending chapter_index order, and the book is
\* stitched last, from one chapter artifact per chapter with a surviving chunk
\* file, in ascending chapter_index order.
C8_ChaptersAscendingIntoBook ==
    /\ \A k, l \in 1..Len(ChapterStitches) :
         k < l => ChapterStitches[k].chapter_idx < ChapterStitches[l].chapter_idx
    /\ \A n \in 1..Len(ChapterStitches) :
         ChapterStitches[n].chapter_idx \in SurvivingChapters
    /\ \A n \in 1..Len(stitch_log) :
         stitch_log[n].output = "book" =>
           /\ n = Len(stitch_log)
           /\ Len(stitch_log[n].wav_paths) = Cardinality(SurvivingChapters)
           /\ \A k \in 1..Len(stitch_log[n].wav_paths) :
                /\ k <= Len(ChapterStitches)
                /\ stitch_log[n].wav_paths[k] = ChapterStitches[k].output_path
                /\ stitch_log[n].wav_paths[k] = ChapterWavName(ChapterStitches[k].chapter_idx)
           /\ { ChapterStitches[k].chapter_idx : k \in 1..Len(ChapterStitches) }
                = SurvivingChapters

C8_Witness ==
    /\ outcome = "rebuild complete"
    /\ Len(BookStitches) = 1
    /\ Len(BookStitches[1].wav_paths) = 2
    /\ before.chapters_dir # <<>>
    /\ \E e \in IndexEntriesOf(rb.index) : e.chapter_index \notin SurvivingChapters
    /\ \E i, j \in 1..Len(rb.index) :
         /\ rb.index[i].id < rb.index[j].id
         /\ rb.index[i].chapter_index > rb.index[j].chapter_index
         /\ {rb.index[i].chapter_index, rb.index[j].chapter_index} \subseteq SurvivingChapters

\* C9: when no entry survives (empty index, skip_first_chunks >= the index
\* length, or every file missing) the rebuild stitches nothing, leaves the chapter
\* and book artifacts as they were, and ends with a nothing-to-rebuild outcome.
C9_NothingToRebuild ==
    SurvivingChapters = {} =>
        /\ stitch_log = <<>>
        /\ chapters_dir = before.chapters_dir
        /\ book_wav = before.book_wav
        /\ pc = "idle" => outcome \in {"nothing: index is empty", "nothing: no chapter WAVs"}

C9_Witness ==
    /\ pc = "idle"
    /\ SurvivingChapters = {}
    /\ rb.index # <<>>
    /\ rb.skip_first_chunks < Len(rb.index)
    /\ before.chapters_dir # <<>>
    /\ before.book_wav.present

\* C10: no stitch call is given an empty list, nor a list none of whose files
\* exists, for a chapter or for the book.
C10_NeverStitchesNothing ==
    /\ \A n \in 1..Len(stitch_log) :
         /\ stitch_log[n].wav_paths # <<>>
         /\ stitch_log[n].wav_list # <<>>
    /\ outcome # "error: ValueError"

C10_Witness ==
    /\ Len(ChapterStitches) >= 1
    /\ Len(BookStitches) = 1
    /\ rb.skip_first_chunks > 0
    /\ \E e \in IndexEntriesOf(rb.index) :
         IdRank(e) >= rb.skip_first_chunks /\ e.file \notin DOMAIN chunks_dir

-----------------------------------------------------------------------------
(* process/chapter_detector.py                                                *)
(*                                                                            *)
(* A confidence is a double.  It is kept as the nearest multiple of 0.001     *)
(* times ten, plus or minus one when the double lies above or below the       *)
(* double of that decimal: 1.0 is 10000, 0.7 + 0.1 = 0.7999999999999999 is    *)
(* 7999 and 0.9 + 0.05 = 0.9500000000000001 is 9501.  Comparing two such      *)
(* numbers compares the doubles.                                              *)

\* x + y in double arithmetic, for the sums the detector forms: the listed sums
\* round away from the decimal sum (or back onto it), every other one is exact
FloatAdd(x, y) ==
    CASE x = 1000 /\ y = 2000 -> 3001
      [] x = 2000 /\ y = 1000 -> 3001
      [] x = 3000 /\ y = 1500 -> 4499
      [] x = 3001 /\ y = 2000 -> 5000
      [] x = 4000 /\ y = 2000 -> 6001
      [] x = 4499 /\ y = 1500 -> 6000
      [] x = 5500 /\ y = 1500 -> 7001
      [] x = 7000 /\ y = 1000 -> 7999
      [] x = 7000 /\ y = 2000 -> 8999
      [] x = 7999 /\ y = 500 -> 8500
      [] x = 7999 /\ y = 1500 -> 9500
      [] x = 7999 /\ y = 2000 -> 10000
      [] x = 8000 /\ y = 1500 -> 9501
      [] x = 9000 /\ y = 500 -> 9501
      [] x = 9500 /\ y = 1500 -> 10999
      [] x = 9501 /\ y = 1500 -> 11000
      [] x = 11500 /\ y = 1500 -> 12999
      [] OTHER -> x + y

Min(a, b) == IF a <= b THEN a ELSE b
Max(a, b) == IF a >= b THEN a ELSE b

\* the elements of a set of integers, ascending
AscSeq(S) ==
    Let(S, LAMBDA v :
        [ k \in 1..Cardinality(v) |->
            CHOOSE x \in v : Cardinality({ y \in v : y < x }) = k - 1 ])

\* text.split('\n'); line i of the code is Lines(text)[i + 1]
Lines(text) == split(text, <<NL>>)

IsBlank(line) == strip(line) = <<>>

\* _has_blank_context(lines, index, window)
_has_blank_context(lines, index, window) ==
    /\ \A i \in Max(0, index - window)..(index - 1) :
         i < Len(lines) => IsBlank(lines[i + 1])
    /\ \A i \in (index + 1)..(Min(Len(lines), index + window + 1) - 1) :
         IsBlank(lines[i + 1])

\* _after_long_gap(lines, index, min_blank)
_after_long_gap(lines, index, min_blank) ==
    IF index < min_blank
    THEN FALSE
    ELSE \A i \in (index - min_blank)..(index - 1) : IsBlank(lines[i + 1])

\* _is_centered(lines, index)
_is_centered(lines, index) ==
    Let(lines[index + 1], LAMBDA line :
        IF line = <<>> \/ line[1] \notin {" ", TAB}
        THEN FALSE
        ELSE /\ Len(line) - Len(lstrip(line)) > 4
             /\ Len(strip(line)) < 60)

\* sum(b.confidence for b in boundaries[k:]), k from 0
RECURSIVE SumConfidence(_, _)
SumConfidence(boundaries, k) ==
    IF k >= Len(boundaries) THEN 0
    ELSE boundaries[k + 1].confidence + SumConfidence(boundaries, k + 1)

\* _avg_confidence(boundaries) > bound.  The only lists it is asked about hold
\* confidences 1.0 and 0.9, whose double average is above 0.8 like the exact one.
_avg_confidence_above(boundaries, bound) ==
    IF boundaries = <<>>
    THEN 0 > bound
    ELSE SumConfidence(boundaries, 0) > bound * Len(boundaries)

MinDistance == 10

\* the loop of _filter_overlapping from boundaries[k] on (k from 0), last being
\* the line_index of filtered[-1]: what the loop still appends to filtered
RECURSIVE FilterFrom(_, _, _, _)
FilterFrom(boundaries, k, last, min_distance) ==
    IF k >= Len(boundaries) THEN <<>>
    ELSE IF boundaries[k + 1].line_index - last >= min_distance
         THEN <<boundaries[k + 1]>>
                  \o FilterFrom(boundaries, k + 1, boundaries[k + 1].line_index, min_distance)
         ELSE FilterFrom(boundaries, k + 1, last, min_distance)

\* _filter_overlapping: the input is in line order already, so sorted() keeps it
_filter_overlapping(boundaries) ==
    Let(boundaries, LAMBDA sorted_boundaries :
        IF sorted_boundaries = <<>> THEN <<>>
        ELSE <<sorted_boundaries[1]>>
                 \o FilterFrom(sorted_boundaries, 1, sorted_boundaries[1].line_index,
                               MinDistance))

(* ---- markdown ---- *)

IsHash(c) == c = "#"

\* any number of "#" taken for a header
MatchesMarkdown_any_level(line_stripped) ==
    Let(line_stripped, LAMBDA ls :
        /\ PrefixLen(ls, IsHash) >= 1
        /\ Len(ls) > PrefixLen(ls, IsHash)
        /\ IsSpace(ls[PrefixLen(ls, IsHash) + 1]))

\* re.match(r'^#{1,2}\s+.+$', line_stripped): one or two "#", whitespace, text.
\* A stripped line that goes on after the whitespace ends in text.
MatchesMarkdown(line_stripped) ==
    Let(line_stripped, LAMBDA ls :
        /\ PrefixLen(ls, IsHash) \in {1, 2}
        /\ Len(ls) > PrefixLen(ls, IsHash)
        /\ IsSpace(ls[PrefixLen(ls, IsHash) + 1]))

MarkdownBoundary(lines, i) ==
    Let(strip(lines[i + 1]), LAMBDA line_stripped :
        [line_index |-> i,
         title |-> strip(From(line_stripped, PrefixLen(line_stripped, IsHash))),
         confidence |-> IF PrefixLen(line_stripped, IsHash) = 1 THEN 10000 ELSE 9000,
         strategy |-> "markdown"])

_detect_markdown(text) ==
    Let(Lines(text), LAMBDA lines :
        MapSeq(AscSeq({ i \in 0..(Len(lines) - 1) : MatchesMarkdown(strip(lines[i + 1])) }),
               LAMBDA i : MarkdownBoundary(lines, i)))

(* ---- structured ---- *)

IsIVX(c) == LowerChar(c) \in {"i", "v", "x"}
IsAlphaOrSpace(c) == IsAlpha(c) \/ IsSpace(c)
IsMarkPunct(c) == c \in {":", "-", "."}

\* the length of what \s*[:\-\.]?\s* takes of t
MarkLen(t) ==
    Let(PrefixLen(t, IsSpace), LAMBDA a :
        Let(IF a < Len(t) /\ IsMarkPunct(t[a + 1]) THEN a + 1 ELSE a, LAMBDA b :
            b + PrefixLen(From(t, b), IsSpace)))

\* (?:\s*[:\-\.]?\s*.{0,50})?$ : what is left after the whitespace, one mark and
\* more whitespace has at most 50 characters
OptionalTail(t) == Let(t, LAMBDA v : Len(v) - MarkLen(v) <= 50)

\* the length of the token at the head of r: a run of letters or, if digits_too,
\* a run of digits; 0 if there is none
TokenLen(r, digits_too) ==
    IF r # <<>> /\ IsAlpha(r[1]) THEN PrefixLen(r, IsAlpha)
    ELSE IF digits_too THEN PrefixLen(r, IsDigit)
    ELSE 0

\* \s+(?:token)(?:\s*[:\-\.]?\s*.{0,50})?$
SpaceThenToken(r, digits_too) ==
    /\ PrefixLen(r, IsSpace) >= 1
    /\ Let(lstrip(r), LAMBDA r2 :
           /\ TokenLen(r2, digits_too) >= 1
           /\ OptionalTail(From(r2, TokenLen(r2, digits_too))))

\* ^KEYWORD\s+(?:token)(?:\s*[:\-\.]?\s*.{0,50})?$ under re.IGNORECASE, where a
\* token is a run of letters or, if digits_too, a run of digits
KeywordThenToken(ls, keyword, digits_too) ==
    /\ StartsWith(lower(ls), keyword)
    /\ Let(From(ls, Len(keyword)), LAMBDA r : SpaceThenToken(r, digits_too))

KwChapter == <<"c", "h", "a", "p", "t", "e", "r">>
KwPart == <<"p", "a", "r", "t">>

\* \.\s+[A-Z][A-Za-z\s]+$ under re.IGNORECASE
DotThenTitle(r) ==
    /\ r # <<>>
    /\ r[1] = "."
    /\ PrefixLen(From(r, 1), IsSpace) >= 1
    /\ Let(lstrip(From(r, 1)), LAMBDA body :
           /\ Len(body) >= 2
           /\ IsAlpha(body[1])
           /\ All(body, IsAlphaOrSpace))

\* ^(?:[IVX]+|\d+)\.\s+[A-Z][A-Za-z\s]+$ under re.IGNORECASE
MatchesNumberedSection(ls) ==
    Let(IF IsDigit(ls[1]) THEN PrefixLen(ls, IsDigit) ELSE PrefixLen(ls, IsIVX), LAMBDA n :
        /\ n >= 1
        /\ Let(From(ls, n), DotThenTitle))

\* ^\s*(?:[IVX]+|\d+)\s*$ under re.IGNORECASE, on a stripped line
MatchesStandaloneNumber(ls) == All(ls, IsIVX) \/ All(ls, IsDigit)

SpecialSections ==
    { <<"p", "r", "o", "l", "o", "g", "u", "e">>,
      <<"e", "p", "i", "l", "o", "g", "u", "e">>,
      <<"p", "r", "e", "f", "a", "c", "e">>,
      <<"i", "n", "t", "r", "o", "d", "u", "c", "t", "i", "o", "n">>,
      <<"c", "o", "n", "c", "l", "u", "s", "i", "o", "n">>,
      <<"a", "f", "t", "e", "r", "w", "o", "r", "d">> }

\* ^(?:PROLOGUE|...|AFTERWORD)\s*$ under re.IGNORECASE, on a stripped line
MatchesSpecialSection(ls) == lower(ls) \in SpecialSections

\* ^[A-Z][A-Z\s]{3,30}$ under re.IGNORECASE
MatchesCapsTitle(ls) ==
    /\ Len(ls) >= 4 /\ Len(ls) <= 31
    /\ IsAlpha(ls[1])
    /\ All(ls, IsAlphaOrSpace)

\* (base_confidence, 'structured:' + pattern_type) of STRUCTURED_PATTERNS, in order
STRUCTURED_PATTERNS ==
    << [base_confidence |-> 9500, strategy |-> "structured:chapter_number"],
       [base_confidence |-> 9500, strategy |-> "structured:chapter_number"],
       [base_confidence |-> 8500, strategy |-> "structured:numbered_section"],
       [base_confidence |-> 7000, strategy |-> "structured:standalone_number"],
       [base_confidence |-> 9000, strategy |-> "structured:part_marker"],
       [base_confidence |-> 9000, strategy |-> "structured:part_marker"],
       [base_confidence |-> 8500, strategy |-> "structured:special_section"],
       [base_confidence |-> 8500, strategy |-> "structured:special_section"],
       [base_confidence |-> 6000, strategy |-> "structured:caps_title"] >>

\* re.match(pattern k, line_stripped, re.IGNORECASE)
PatternMatches(k, ls) ==
    CASE k \in {1, 2} -> KeywordThenToken(ls, KwChapter, TRUE)
      [] k = 3 -> MatchesNumberedSection(ls)
      [] k = 4 -> MatchesStandaloneNumber(ls)
      [] k \in {5, 6} -> KeywordThenToken(ls, KwPart, FALSE)
      [] k \in {7, 8} -> MatchesSpecialSection(ls)
      [] k = 9 -> MatchesCapsTitle(ls)

\* the first pattern that matches, 0 when none does
FirstPattern(ls) ==
    Let({ k \in 1..Len(STRUCTURED_PATTERNS) : PatternMatches(k, ls) }, LAMBDA matching :
        IF matching = {} THEN 0 ELSE CHOOSE k \in matching : \A o \in matching : k <= o)

\* the base confidence, + 0.1 in blank context, capped at 1.0
ContextBoost(lines, i, base_confidence) ==
    IF _has_blank_context(lines, i, 1)
    THEN Min(10000, FloatAdd(base_confidence, 1000))
    ELSE base_confidence

\* + 0.05 near the start or after a long gap, capped at 1.0
PositionBoost(lines, i, confidence) ==
    IF i < 5 \/ _after_long_gap(lines, i, 3)
    THEN Min(10000, FloatAdd(confidence, 500))
    ELSE confidence

StructuredConfidence(lines, i, base_confidence) ==
    PositionBoost(lines, i, ContextBoost(lines, i, base_confidence))

\* the boundary the first matching pattern gives for line i; the line is not one
\* if it is blank, matches no pattern, or scores below min_confidence
StructuredBoundary(lines, i) ==
    Let(strip(lines[i + 1]), LAMBDA ls :
        IF ls = <<>> THEN <<>>
        ELSE Let(FirstPattern(ls), LAMBDA k :
                 IF k = 0 THEN <<>>
                 ELSE [line_index |-> i,
                       title |-> ls,
                       confidence |->
                           StructuredConfidence(lines, i, STRUCTURED_PATTERNS[k].base_confidence),
                       strategy |-> STRUCTURED_PATTERNS[k].strategy]))

\* the boundaries found line by line, those below min_confidence left out
Found(candidates, min_confidence) ==
    SelectSeq(candidates, LAMBDA b : b # <<>> /\ b.confidence >= min_confidence)

_detect_structured(text, min_confidence) ==
    Let(Lines(text), LAMBDA lines :
        _filter_overlapping(
            Found([ k \in 1..Len(lines) |-> StructuredBoundary(lines, k - 1) ],
                  min_confidence)))

(* ---- heuristic ---- *)

CHAPTER_KEYWORDS ==
    { <<"c", "h", "a", "p", "t", "e", "r">>, <<"p", "a", "r", "t">>, <<"s", "e", "c", "t", "i", "o", "n">>, <<"b", "o", "o", "k">>, <<"p", "r", "o", "l", "o", "g", "u", "e">>, <<"e", "p", "i", "l", "o", "g", "u", "e">>,
      <<"i", "n", "t", "r", "o", "d", "u", "c", "t", "i", "o", "n">>, <<"p", "r", "e", "f", "a", "c", "e">>, <<"a", "f", "t", "e", "r", "w", "o", "r", "d">>, <<"i", "n", "t", "e", "r", "l", "u", "d", "e">> }

\* the one character U+2026
ELLIPSIS == "U+2026"

SceneBreaks == { <<"*", "*", "*">>, <<"-", "-", "-">>, <<"*", " ", "*", " ", "*">>, <<ELLIPSIS>> }

Indents == { <<" ", " ", " ", " ">>, <<TAB>> }

AddIf(score, holds, weight) == IF holds THEN FloatAdd(score, weight) ELSE score

\* features 1 and 2, of the stripped line alone
LineScore(ls) ==
    AddIf(AddIf(0, ls[1] \in Upper /\ 5 <= Len(ls) /\ Len(ls) <= 50, 2000),
          Let(lower(ls), LAMBDA low : \E keyword \in CHAPTER_KEYWORDS : Contains(low, keyword)),
          3000)

\* features 3 to 7, of the lines around line i
HeuristicScore(lines, i, line_score) ==
    AddIf(AddIf(AddIf(AddIf(AddIf(line_score,
        _has_blank_context(lines, i, 2), 2000),
        i + 1 < Len(lines) /\ \E indent \in Indents : StartsWith(lines[i + 2], indent), 1000),
        i > 0 /\ strip(lines[Max(i, 1)]) \in SceneBreaks, 2000),
        _is_centered(lines, i), 1500),
        _after_long_gap(lines, i, 3), 1500)

\* the boundary of line i with its uncapped score; the line is not one if it is
\* blank or longer than 100 characters
HeuristicBoundary(lines, i) ==
    Let(strip(lines[i + 1]), LAMBDA ls :
        IF ls = <<>> \/ Len(ls) > 100 THEN <<>>
        ELSE [line_index |-> i,
              title |-> ls,
              confidence |-> HeuristicScore(lines, i, LineScore(ls)),
              strategy |-> "heuristic"])

\* confidence=min(1.0, score)
Capped(b) == [b EXCEPT !.confidence = Min(10000, @)]

_detect_heuristic(text, min_confidence) ==
    Let(Lines(text), LAMBDA lines :
        _filter_overlapping(
            MapSeq(Found([ k \in 1..Len(lines) |-> HeuristicBoundary(lines, k - 1) ],
                         min_confidence),
                   Capped)))

(* ---- paragraph gaps ---- *)

\* the loop of _detect_paragraph_breaks from line i on: the boundaries it still
\* appends; title None is <<>>
RECURSIVE ParagraphBreaksFrom(_, _, _)
ParagraphBreaksFrom(lines, i, blank_run) ==
    IF i >= Len(lines) THEN <<>>
    ELSE IF IsBlank(lines[i + 1])
         THEN ParagraphBreaksFrom(lines, i + 1, blank_run + 1)
         ELSE (IF blank_run >= 5
               THEN << [line_index |-> i, title |-> <<>>, confidence |-> 4000,
                        strategy |-> "paragraph_break"] >>
               ELSE <<>>)
              \o ParagraphBreaksFrom(lines, i + 1, 0)

_detect_paragraph_breaks(text) ==
    Let(Lines(text), LAMBDA lines : ParagraphBreaksFrom(lines, 0, 0))

(* ---- detect ---- *)

\* the last two steps of _detect_auto
AutoHeuristic(text) ==
    Let(_detect_heuristic(text, 5000), LAMBDA heuristic :
        IF heuristic # <<>> /\ Len(heuristic) >= 3 THEN heuristic
        ELSE _detect_paragraph_breaks(text))

\* the last three steps of _detect_auto
AutoStructured(text) ==
    Let(_detect_structured(text, 7000), LAMBDA structured :
        IF structured # <<>> /\ Len(structured) >= 3 THEN structured
        ELSE AutoHeuristic(text))

\* the structured stage run at the caller's min_confidence
_detect_auto_caller_threshold(text, min_confidence) ==
    Let(_detect_markdown(text), LAMBDA markdown :
        IF markdown # <<>> /\ _avg_confidence_above(markdown, 8000) THEN markdown
        ELSE Let(_detect_structured(text, min_confidence), LAMBDA structured :
                 IF structured # <<>> /\ Len(structured) >= 3 THEN structured
                 ELSE AutoHeuristic(text)))

\* the markdown stage is accepted above an average of 0.9
_detect_auto_average_above_0_9(text, min_confidence) ==
    Let(_detect_markdown(text), LAMBDA markdown :
        IF markdown # <<>> /\ _avg_confidence_above(markdown, 9000) THEN markdown
        ELSE AutoStructured(text))

_detect_auto(text, min_confidence) ==
    Let(_detect_markdown(text), LAMBDA markdown :
        IF markdown # <<>> /\ _avg_confidence_above(markdown, 8000) THEN markdown
        ELSE AutoStructured(text))

Strategies == {"auto", "markdown", "structured", "heuristic", "paragraph", "none"}

\* detect(text, strategy, min_confidence), for the six strategies it knows
detect(text, strategy, min_confidence) ==
    CASE strategy = "none" -> <<>>
      [] strategy = "auto" -> _detect_auto(text, min_confidence)
      [] strategy = "markdown" -> _detect_markdown(text)
      [] strategy = "structured" -> _detect_structured(text, min_confidence)
      [] strategy = "heuristic" -> _detect_heuristic(text, min_confidence)
      [] strategy = "paragraph" -> _detect_paragraph_breaks(text)

-----------------------------------------------------------------------------
(* ingest/txt_ingest.py *)

FullText == <<"F", "u", "l", "l", " ", "T", "e", "x", "t">>
ChapterWord == <<"C", "h", "a", "p", "t", "e", "r", " ">>

DigitChars == <<"0", "1", "2", "3", "4", "5", "6", "7", "8", "9">>

\* str(n) for n >= 0
Str(n) == MapSeq(Digits(n), LAMBDA d : DigitChars[d + 1])

\* every chapter runs to the end of the document
ChapterText_to_end(lines, boundaries, i) ==
    join(SubSeq(lines, boundaries[i + 1].line_index + 1, Len(lines)), <<NL>>)

\* lines[start:end] of boundary i (from 0), joined
ChapterText(lines, boundaries, i) ==
    join(SubSeq(lines,
                boundaries[i + 1].line_index + 1,
                IF i + 1 < Len(boundaries) THEN boundaries[i + 2].line_index ELSE Len(lines)),
         <<NL>>)

\* boundary.title or f"Chapter {i + 1}"
ChapterTitle(boundaries, i) ==
    IF boundaries[i + 1].title # <<>> THEN boundaries[i + 1].title ELSE ChapterWord \o Str(i + 1)

\* the BookText of the boundaries, of which there is one at least
SplitAtBoundaries(text, boundaries) ==
    Let(Lines(text), LAMBDA lines :
        [chapters |-> [ k \in 1..Len(boundaries) |-> ChapterText(lines, boundaries, k - 1) ],
         chapter_titles |-> [ k \in 1..Len(boundaries) |-> ChapterTitle(boundaries, k - 1) ]])

\* no fallback to a single chapter
load_txt_no_fallback(text, chapter_strategy, min_confidence) ==
    Let(detect(text, chapter_strategy, min_confidence), LAMBDA boundaries :
        SplitAtBoundaries(text, boundaries))

\* load_txt(path, chapter_strategy, min_confidence) on the text of the file
load_txt(text, chapter_strategy, min_confidence) ==
    Let(detect(text, chapter_strategy, min_confidence), LAMBDA boundaries :
        IF boundaries = <<>>
        THEN [chapters |-> <<text>>, chapter_titles |-> <<FullText>>]
        ELSE SplitAtBoundaries(text, boundaries))

-----------------------------------------------------------------------------
(* re.sub and str.replace, as process/cleaner.py and process/sanitize.py use  *)
(* them.  Positions are the offsets of Python, from 0.                        *)

\* the character at offset p, "" outside the text
At(text, p) == IF p >= 0 /\ p < Len(text) THEN text[p + 1] ELSE ""

\* the length of the run of characters satisfying P that starts at offset p
Run(text, p, P(_)) == PrefixLen(From(text, Min(p, Len(text))), P)

MaxOf(S) == CHOOSE x \in S : \A y \in S : y <= x

IsWord(c) == IsAlpha(c) \/ IsDigit(c) \/ c = "_"
IsPunct(c) == c \in {".", ",", ";", ":", "!", "?"}
IsSentenceEnd(c) == c \in {".", "!", "?"}
IsNewline(c) == c = NL
IsSpaceOrTab(c) == c \in {" ", TAB}
IsNotClosing(c) == c # ")"

\* str.replace(old, new) from offset p on, old not empty and found being the
\* offsets at which old occurs: occurrences are taken left to right and do not
\* overlap
RECURSIVE ReplaceFrom(_, _, _, _, _)
ReplaceFrom(text, old, new, found, p) ==
    Let(LeastFrom(found, p, -1), LAMBDA m :
        IF m = -1
        THEN SubSeq(text, p + 1, Len(text))
        ELSE SubSeq(text, p + 1, m) \o new \o ReplaceFrom(text, old, new, found, m + Len(old)))

replace(text, old, new) ==
    Let(text, LAMBDA v :
        Let({ i - 1 : i \in Occurrences(v, old) }, LAMBDA found :
            ReplaceFrom(v, old, new, found, 0)))

\* Each XEnd(text, p) is the offset at which the match of the pattern that
\* starts at offset p ends, and p when there is no match at p.

\* ^\s*\d+\s*$ with re.MULTILINE
PageNumberEnd(text, p) ==
    LET a == Run(text, p, IsSpace)
        d == Run(text, p + a, IsDigit)
        w == Run(text, p + a + d, IsSpace)
        ends == { k \in 0..w : At(text, p + a + d + k) \in {"", NL} }
    IN  IF (p = 0 \/ At(text, p - 1) = NL) /\ d >= 1 /\ ends # {}
        THEN p + a + d + MaxOf(ends)
        ELSE p

\* (\w)-\s+(\w)
HyphenBreakEnd(text, p) ==
    LET a == Run(text, p + 2, IsSpace)
    IN  IF IsWord(At(text, p)) /\ At(text, p + 1) = "-" /\ a >= 1 /\ IsWord(At(text, p + 2 + a))
        THEN p + 3 + a
        ELSE p

\* \b([A-Z])\s+([a-z])\s+([a-z])\b
OcrSpacingEnd(text, p) ==
    LET a == Run(text, p + 1, IsSpace)
        b == Run(text, p + 2 + a, IsSpace)
    IN  IF /\ At(text, p) \in Upper /\ ~IsWord(At(text, p - 1))
           /\ a >= 1 /\ At(text, p + 1 + a) \in Lower
           /\ b >= 1 /\ At(text, p + 2 + a + b) \in Lower
           /\ ~IsWord(At(text, p + 3 + a + b))
        THEN p + 3 + a + b
        ELSE p

\* \s+
WhitespaceEnd(text, p) == p + Run(text, p, IsSpace)

\* \n\s*\n\s*\n+
BlankLinesEnd(text, p) ==
    LET w == Run(text, p, IsSpace)
        newlines == { k \in 0..(w - 1) : At(text, p + k) = NL }
    IN  IF At(text, p) = NL /\ Cardinality(newlines) >= 3
        THEN p + MaxOf(newlines) + 1
        ELSE p

\* \s+([.,;:!?])
SpaceBeforePunctEnd(text, p) ==
    LET a == Run(text, p, IsSpace)
    IN  IF a >= 1 /\ IsPunct(At(text, p + a)) THEN p + a + 1 ELSE p

\* ([.,;:!?])([A-Za-z])
PunctLetterEnd(text, p) ==
    IF IsPunct(At(text, p)) /\ IsAlpha(At(text, p + 1)) THEN p + 2 ELSE p

\* \[\d+\]
CitationEnd(text, p) ==
    LET d == Run(text, p + 1, IsDigit)
    IN  IF At(text, p) = "[" /\ d >= 1 /\ At(text, p + 1 + d) = "]" THEN p + d + 2 ELSE p

SeeOpen == <<"(", "s", "e", "e", " ">>

\* \(see [^)]+\)
SeeRefEnd(text, p) ==
    LET n == Run(text, p + Len(SeeOpen), IsNotClosing)
    IN  IF /\ StartsWith(From(text, Min(p, Len(text))), SeeOpen)
           /\ n >= 1
           /\ At(text, p + Len(SeeOpen) + n) = ")"
        THEN p + Len(SeeOpen) + n + 1
        ELSE p

\* ([.!?])\s+
SentencePauseEnd(text, p) ==
    LET a == Run(text, p + 1, IsSpace)
    IN  IF IsSentenceEnd(At(text, p)) /\ a >= 1 THEN p + 1 + a ELSE p

\* \n\n+
ParagraphBreakEnd(text, p) ==
    LET n == Run(text, p, IsNewline)
    IN  IF n >= 2 THEN p + n ELSE p

\* [ \t]+
SpacesTabsEnd(text, p) == p + Run(text, p, IsSpaceOrTab)

MatchEnd(pattern, text, p) ==
    CASE pattern = "page_number" -> PageNumberEnd(text, p)
      [] pattern = "hyphen_break" -> HyphenBreakEnd(text, p)
      [] pattern = "ocr_spacing" -> OcrSpacingEnd(text, p)
      [] pattern = "whitespace" -> WhitespaceEnd(text, p)
      [] pattern = "blank_lines" -> BlankLinesEnd(text, p)
      [] pattern = "space_before_punct" -> SpaceBeforePunctEnd(text, p)
      [] pattern = "punct_letter" -> PunctLetterEnd(text, p)
      [] pattern = "citation" -> CitationEnd(text, p)
      [] pattern = "see_ref" -> SeeRefEnd(text, p)
      [] pattern = "sentence_pause" -> SentencePauseEnd(text, p)
      [] pattern = "paragraph_break" -> ParagraphBreakEnd(text, p)
      [] pattern = "spaces_tabs" -> SpacesTabsEnd(text, p)

\* what the match text[p:q] of the pattern is replaced by
Replacement(pattern, text, p, q) ==
    CASE pattern = "page_number" -> <<>>
      [] pattern = "hyphen_break" -> <<At(text, p), At(text, q - 1)>>
      [] pattern = "ocr_spacing" ->
           <<At(text, p), At(text, p + 1 + Run(text, p + 1, IsSpace)), At(text, q - 1)>>
      [] pattern = "whitespace" -> <<" ">>
      [] pattern = "blank_lines" -> <<NL, NL>>
      [] pattern = "space_before_punct" -> <<At(text, q - 1)>>
      [] pattern = "punct_letter" -> <<At(text, p), " ", At(text, p + 1)>>
      [] pattern = "citation" -> <<>>
      [] pattern = "see_ref" -> <<>>
      [] pattern = "sentence_pause" -> <<At(text, p), " ", " ">>
      [] pattern = "paragraph_break" -> <<NL, NL>>
      [] pattern = "spaces_tabs" -> <<" ">>

\* re.sub(pattern, replacement, text) from offset p on, ends[m] being MatchEnd at
\* offset m and starts the offsets where a match starts: matches are taken left
\* to right and do not overlap; none of the patterns matches the empty string
RECURSIVE SubFrom(_, _, _, _, _)
SubFrom(pattern, text, ends, starts, p) ==
    Let(LeastFrom(starts, p, -1), LAMBDA m :
        IF m = -1
        THEN SubSeq(text, p + 1, Len(text))
        ELSE SubSeq(text, p + 1, m)
                 \o Replacement(pattern, text, m, ends[m])
                 \o SubFrom(pattern, text, ends, starts, ends[m]))

re_sub(pattern, text) ==
    Let(text, LAMBDA v :
        Let([ m \in 0..(Len(v) - 1) |-> MatchEnd(pattern, v, m) ], LAMBDA ends :
            Let({ m \in 0..(Len(v) - 1) : ends[m] > m }, LAMBDA starts :
                SubFrom(pattern, v, ends, starts, 0))))

-----------------------------------------------------------------------------
(* process/cleaner.py *)

\* the stripped lines longer than 10 characters that occur more than 3 times
RepeatedLines(lines) ==
    Let(MapSeq(lines, strip), LAMBDA stripped :
        { stripped[i] : i \in { j \in 1..Len(stripped) :
            /\ Len(stripped[j]) > 10
            /\ Cardinality({ k \in 1..Len(stripped) : stripped[k] = stripped[j] }) > 3 } })

\* the old string of the second replace of the quote clean-up: in the source
\* line three quote characters in a row open and close one string literal
QuoteOld == <<",", " ", "\"", "'", "\"", ")", ".", "r", "e", "p", "l", "a", "c", "e", "(">>

\* lines 19-26: page numbers, hyphenated line breaks, letters OCR spaced out
RemoveOcrArtifacts(text) ==
    re_sub("ocr_spacing",
        re_sub("hyphen_break",
            replace(re_sub("page_number", text), <<"-", " ">>, <<>>)))

\* lines 30-40: lines that occur more than 3 times are dropped
RemoveRepeated(text) ==
    Let(split(text, <<NL>>), LAMBDA lines :
        Let(RepeatedLines(lines), LAMBDA repeated :
            join(SelectSeq(lines, LAMBDA line : strip(line) \notin repeated), <<NL>>)))

\* lines 43-44
NormalizeWhitespace(text) == re_sub("blank_lines", re_sub("whitespace", text))

\* lines 47-48
FixPunctuation(text) == re_sub("punct_letter", re_sub("space_before_punct", text))

\* lines 52-53
RemoveCitations(text) == re_sub("see_ref", re_sub("citation", text))

\* lines 56-57; the first replace replaces the straight double quote by itself
CleanQuotes(text) == replace(replace(text, <<"\"">>, <<"\"">>), QuoteOld, <<"'">>)

\* clean_text(text)
clean_text(text) ==
    strip(CleanQuotes(RemoveCitations(FixPunctuation(NormalizeWhitespace(
        RemoveRepeated(RemoveOcrArtifacts(text)))))))

-----------------------------------------------------------------------------
(* process/sanitize.py *)

ZWSP == "U+200B"       \* the one character U+200B
BOM == "U+FEFF"        \* the one character U+FEFF
CR == "\r"
EMDASH == "U+2014"     \* the one character U+2014
ENDASH == "U+2013"     \* the one character U+2013

\* the (old, new) pairs of the str.replace calls, in order
SanitiseReplacements ==
    << << <<ZWSP>>, <<>> >>,
       << <<BOM>>, <<>> >>,
       << <<CR>>, <<>> >>,
       << <<EMDASH>>, <<" ", "-", " ">> >>,
       << <<ENDASH>>, <<" ", "-", " ">> >>,
       << <<"e", ".", "g", ".">>, <<"f", "o", "r", " ", "e", "x", "a", "m", "p", "l", "e">> >>,
       << <<"E", ".", "g", ".">>, <<"F", "o", "r", " ", "e", "x", "a", "m", "p", "l", "e">> >>,
       << <<"i", ".", "e", ".">>, <<"t", "h", "a", "t", " ", "i", "s">> >>,
       << <<"I", ".", "e", ".">>, <<"T", "h", "a", "t", " ", "i", "s">> >>,
       << <<"e", "t", "c", ".">>, <<"e", "t", " ", "c", "e", "t", "e", "r", "a">> >>,
       << <<"v", "s", ".">>, <<"v", "e", "r", "s", "u", "s">> >>,
       << <<"c", ".", "f", ".">>, <<"c", "o", "m", "p", "a", "r", "e">> >>,
       << <<"e", "t", " ", "a", "l", ".">>, <<"a", "n", "d", " ", "o", "t", "h", "e", "r", "s">> >>,
       << <<"i", "b", "i", "d", ".">>, <<"s", "a", "m", "e", " ", "s", "o", "u", "r", "c", "e">> >>,
       << <<"o", "p", ".", " ", "c", "i", "t", ".">>, <<"p", "r", "e", "v", "i", "o", "u", "s", "l", "y", " ", "c", "i", "t", "e", "d">> >> >>

RECURSIVE ReplaceAll(_, _)
ReplaceAll(text, pairs) ==
    IF pairs = <<>> THEN text
    ELSE ReplaceAll(replace(text, Head(pairs)[1], Head(pairs)[2]), Tail(pairs))

\* sanitise_for_tts(text), on text that NFKC normalisation and the UTF-8 round
\* trip leave alone (ASCII and the characters named above)
sanitise_for_tts(text) ==
    strip(re_sub("spaces_tabs",
              re_sub("paragraph_break",
                  re_sub("sentence_pause", ReplaceAll(text, SanitiseReplacements)))))

-----------------------------------------------------------------------------
(* config.py, project.py, tts/piper.py *)

DefaultTargetChunkSecs == 30

\* PresetConfig.load(name): the package ships no presets/<name>.yaml, so the
\* preset is the defaults with voice = name
PresetConfig_load(name) == [voice |-> name, target_chunk_secs |-> DefaultTargetChunkSecs]

\* Chunk.to_dict(): the record of one chunk in project.json
to_dict(chunk) ==
    [id |-> chunk.id,
     chapter_index |-> chunk.chapter_index,
     relative_index |-> chunk.relative_index,
     file |-> ChunkWavName(chunk.id),
     text |-> chunk.text,
     estimated_seconds |-> chunk.estimated_seconds]

\* json.dump of a dict with string keys: the members of the JSON object
json_dump_dict(d) == { <<k, d[k]>> : k \in DOMAIN d }

\* json.load of a JSON object; the dict {} is <<>>
json_load_dict(members) ==
    [ k \in { m[1] : m \in members } |-> (CHOOSE m \in members : m[1] = k)[2] ]

\* json.dump and json.load of a list of dicts
json_dump_list(index) == [ i \in 1..Len(index) |-> json_dump_dict(index[i]) ]
json_load_list(items) == [ i \in 1..Len(items) |-> json_load_dict(items[i]) ]

\* the new document is appended to what the file held
save_index_append(file, index) ==
    [exists |-> TRUE, data |-> file.data \o json_dump_list(index)]

\* BookProject.save_index(index): project.json, opened with "w", holds the new
\* document alone
save_index(file, index) == [exists |-> TRUE, data |-> json_dump_list(index)]

\* BookProject.load_index()
load_index(file) == IF file.exists THEN json_load_list(file.data) ELSE <<>>

\* BookProject.save_meta(meta): meta.json, opened with "w"
save_meta(file, meta) == [exists |-> TRUE, data |-> json_dump_dict(meta)]

\* BookProject.load_meta()
load_meta(file) == IF file.exists THEN json_load_dict(file.data) ELSE <<>>

\* meta.get(key, default)
MetaGet(meta, key, default) == IF key \in DOMAIN meta THEN meta[key] ELSE default

\* the audio piper writes for the text it is given
Speech(chunk) == <<"speech", sanitise_for_tts(chunk.text)>>

\* how PiperBackend.synthesize_chunk can end: the file is written; piper
\* complains about surrogates and the chunk is skipped without a file; piper
\* fails otherwise and RuntimeError is raised
SynthResults == {"written", "skipped", "raised"}

-----------------------------------------------------------------------------
(* cli.py: process *)

MaxCommands == 2      \* commands run one after the other
MaxDocBlocks == 2     \* blocks of lines a generated document is made of
MaxReviewId == 1      \* review is asked for the chunk ids 0..MaxReviewId

MinConfidences == {5000, 9000}
CommandSkips == {0, 1}

InputFile == "book.txt"
VoiceModel == "voice.onnx"
DefaultPreset == "calm_longform"

\* chunk_id = chunks[-1].id, the + 1 forgotten
NextChunkId_last(chunks) == chunks[Len(chunks)].id

\* chunk_id = chunks[-1].id + 1
NextChunkId(chunks) == chunks[Len(chunks)].id + 1

\* lines 127-163, up to the loop over the chapters.  The input file exists and
\* the backend is piper.
process_start ==
    /\ pc = "idle"
    /\ commands < MaxCommands
    /\ \E chapter_strategy \in Strategies, chapter_min_confidence \in MinConfidences,
          skip_first_chunks \in CommandSkips :
       \E book \in { load_txt(source_text, chapter_strategy, chapter_min_confidence) } :
             cmd' = [name |-> "process",
                     chapter_strategy |-> chapter_strategy,
                     chapter_min_confidence |-> chapter_min_confidence,
                     skip_first_chunks |-> skip_first_chunks,
                     config |-> PresetConfig_load(DefaultPreset),
                     chapters |-> book.chapters,
                     chapter_index |-> 0,
                     chunk_id |-> 0,
                     chunks |-> <<>>,
                     all_chunk_meta |-> <<>>,
                     emitted |-> <<>>]
    /\ pc' = "process_chapter"
    /\ outcome' = "none"
    /\ stitch_log' = <<>>
    /\ synth_log' = <<>>
    /\ commands' = commands + 1
    /\ UNCHANGED <<cc_vars, call_vars, disk_vars, rb, before, source_text, index_file, meta_file, hist>>

\* lines 165-173: the next chapter is cleaned and chunked
process_chapter ==
    /\ pc = "process_chapter"
    /\ cmd.chapter_index < Len(cmd.chapters)
    /\ \E cleaned \in { clean_text(cmd.chapters[cmd.chapter_index + 1]) } :
       \E chunks \in { chunk_chapter(cleaned, cmd.config.target_chunk_secs,
                                     cmd.chapter_index, cmd.chunk_id) } :
         IF chunks = <<>>
         THEN /\ cmd' = [cmd EXCEPT !.chapter_index = @ + 1]
              /\ UNCHANGED pc
         ELSE /\ cmd' = [cmd EXCEPT !.chunk_id = NextChunkId(chunks), !.chunks = chunks]
              /\ pc' = "process_synth"
    /\ UNCHANGED <<cc_vars, call_vars, disk_vars, outcome, rb, stitch_log, before,
                   source_text, index_file, meta_file, synth_log, hist, commands>>

\* the index is saved after every chunk
process_synth_saving ==
    /\ pc = "process_synth"
    /\ cmd.chunks # <<>>
    /\ index_file' = save_index(index_file, Append(cmd.all_chunk_meta, to_dict(Head(cmd.chunks))))
    /\ LET chunk == Head(cmd.chunks)
           out_wav == ChunkWavName(chunk.id)
           last == Tail(cmd.chunks) = <<>>
       IN  \E result \in SynthResults :
             /\ synth_log' = Append(synth_log,
                                    [chunk |-> chunk, out_wav |-> out_wav, result |-> result])
             /\ chunks_dir' = IF result = "written"
                              THEN (out_wav :> Speech(chunk)) @@ chunks_dir
                              ELSE chunks_dir
             /\ IF result = "raised"
                THEN /\ cmd' = [cmd EXCEPT !.emitted = Append(@, chunk)]
                     /\ pc' = "idle"
                     /\ outcome' = "error: RuntimeError"
                ELSE /\ cmd' = [cmd EXCEPT !.emitted = Append(@, chunk),
                                           !.all_chunk_meta = Append(@, to_dict(chunk)),
                                           !.chunks = Tail(@),
                                           !.chapter_index = IF last THEN @ + 1 ELSE @]
                     /\ pc' = IF last THEN "process_chapter" ELSE pc
                     /\ UNCHANGED outcome
    /\ UNCHANGED <<cc_vars, call_vars, chapters_dir, book_wav, rb, stitch_log, before,
                   source_text, meta_file, hist, commands>>

\* lines 175-182: the next chunk of the chapter is synthesized and recorded
process_synth ==
    /\ pc = "process_synth"
    /\ cmd.chunks # <<>>
    /\ LET chunk == Head(cmd.chunks)
           out_wav == ChunkWavName(chunk.id)
           last == Tail(cmd.chunks) = <<>>
       IN  \E result \in SynthResults :
             /\ synth_log' = Append(synth_log,
                                    [chunk |-> chunk, out_wav |-> out_wav, result |-> result])
             /\ chunks_dir' = IF result = "written"
                              THEN (out_wav :> Speech(chunk)) @@ chunks_dir
                              ELSE chunks_dir
             /\ IF result = "raised"
                THEN /\ cmd' = [cmd EXCEPT !.emitted = Append(@, chunk)]
                     /\ pc' = "idle"
                     /\ outcome' = "error: RuntimeError"
                ELSE /\ cmd' = [cmd EXCEPT !.emitted = Append(@, chunk),
                                           !.all_chunk_meta = Append(@, to_dict(chunk)),
                                           !.chunks = Tail(@),
                                           !.chapter_index = IF last THEN @ + 1 ELSE @]
                     /\ pc' = IF last THEN "process_chapter" ELSE pc
                     /\ UNCHANGED outcome
    /\ UNCHANGED <<cc_vars, call_vars, chapters_dir, book_wav, rb, stitch_log, before,
                   source_text, index_file, meta_file, hist, commands>>

\* line 185: project.save_index(all_chunk_meta), once the loop is over
process_save_index ==
    /\ pc = "process_chapter"
    /\ cmd.chapter_index >= Len(cmd.chapters)
    /\ index_file' = save_index(index_file, cmd.all_chunk_meta)
    /\ hist' = [chapter_strategy |-> cmd.chapter_strategy,
                chapter_min_confidence |-> cmd.chapter_min_confidence,
                chapters |-> cmd.chapters,
                emitted |-> cmd.emitted]
    /\ pc' = "process_save_meta"
    /\ UNCHANGED <<cc_vars, call_vars, disk_vars, outcome, rb, stitch_log, before,
                   source_text, meta_file, cmd, synth_log, commands>>

\* lines 191-206: project.save_meta(...), then the rebuild if there is a chunk
process_save_meta ==
    /\ pc = "process_save_meta"
    /\ meta_file' = save_meta(meta_file,
                            [source_file |-> InputFile,
                             preset |-> DefaultPreset,
                             voice_model |-> VoiceModel,
                             chapter_strategy |-> cmd.chapter_strategy,
                             chapter_min_confidence |-> cmd.chapter_min_confidence])
    /\ IF cmd.all_chunk_meta = <<>>
       THEN /\ pc' = "idle"
            /\ outcome' = "nothing: no chunks generated"
            /\ UNCHANGED <<rb, before>>
       ELSE /\ pc' = "rebuild"
            /\ rb' = [NoRebuild EXCEPT !.index = cmd.all_chunk_meta,
                                       !.skip_first_chunks = cmd.skip_first_chunks]
            /\ before' = Snapshot
            /\ UNCHANGED outcome
    /\ UNCHANGED <<cc_vars, call_vars, disk_vars, stitch_log,
                   source_text, index_file, cmd, synth_log, hist, commands>>

-----------------------------------------------------------------------------
(* cli.py: review *)

DefaultChapterStrategy == "auto"
DefaultMinConfidence == 5000

NewTextPool == { <<>>, << <<"n", "e", "w">> >> }

\* starting_chunk_id=chunk_meta["id"]
ReviewStartingId(chunk_meta) == chunk_meta.id

\* lines 280-322: the chapter is cleaned and chunked again and the chunk looked
\* up in it.  new_text is <<>> for None and <<text>> for a text.
ReviewRechunk(index, meta, chunk_meta, book, chunk, new_text) ==
    Let(clean_text(book.chapters[chunk_meta.chapter_index + 1]), LAMBDA cleaned :
    Let(chunk_chapter(cleaned,
                      PresetConfig_load(MetaGet(meta, "preset", DefaultPreset)).target_chunk_secs,
                      chunk_meta.chapter_index,
                      ReviewStartingId(chunk_meta)), LAMBDA chapter_chunks :
    Let(SelectSeq(chapter_chunks, LAMBDA c : c.id = chunk), LAMBDA found :
        IF found = <<>>
        THEN [error |-> "BadParameter: chunk id not found when re-chunking",
              load_txt_args |-> <<DefaultChapterStrategy, DefaultMinConfidence>>,
              chapters |-> book.chapters]
        ELSE IF MetaGet(meta, "voice_model", "") = ""
        THEN [error |-> "BadParameter: no voice_model recorded"]
        ELSE [error |-> "",
              index |-> index,
              load_txt_args |-> <<DefaultChapterStrategy, DefaultMinConfidence>>,
              chapters |-> book.chapters,
              original_chunk |-> found[1],
              updated_chunk |->
                  [found[1] EXCEPT !.text = IF new_text # <<>> THEN new_text[1] ELSE @]])))

\* lines 267-276: the source is loaded again, with the defaults of load_txt
ReviewChapter(index, meta, chunk_meta, chunk, new_text) ==
    Let(load_txt(source_text, DefaultChapterStrategy, DefaultMinConfidence), LAMBDA book :
        IF chunk_meta.chapter_index >= Len(book.chapters)
        THEN [error |-> "BadParameter: chapter index out of range",
              load_txt_args |-> <<DefaultChapterStrategy, DefaultMinConfidence>>,
              chapters |-> book.chapters]
        ELSE ReviewRechunk(index, meta, chunk_meta, book, chunk, new_text))

\* lines 243-322: everything review does before it synthesizes, as the record
\* of its locals, or of the error it stops with and what it had loaded by
\* then.  The source file exists.
ReviewLocals(chunk, new_text) ==
    Let(load_index(index_file), LAMBDA index :
    Let(load_meta(meta_file), LAMBDA meta :
    Let(SelectSeq(index, LAMBDA m : m.id = chunk), LAMBDA hits :
        IF index = <<>>
        THEN [error |-> "BadParameter: no project.json"]
        ELSE IF MetaGet(meta, "source_file", "") = ""
        THEN [error |-> "BadParameter: no source_file recorded"]
        ELSE IF hits = <<>>
        THEN [error |-> "BadParameter: chunk id not found in project index"]
        ELSE ReviewChapter(index, meta, hits[1], chunk, new_text))))

\* the project files as a command finds them
Started == [chunks_dir |-> chunks_dir, index_file |-> index_file, meta_file |-> meta_file]

review_start ==
    /\ pc = "idle"
    /\ commands < MaxCommands
    /\ \E chunk \in 0..MaxReviewId, new_text \in NewTextPool, skip_first_chunks \in CommandSkips :
       \E locals \in { ReviewLocals(chunk, new_text) } :
             /\ cmd' = [name |-> "review",
                        chunk |-> chunk,
                        new_text |-> new_text,
                        skip_first_chunks |-> skip_first_chunks,
                        started |-> Started,
                        locals |-> locals]
             /\ pc' = IF locals.error = "" THEN "review_synth" ELSE "idle"
             /\ outcome' = IF locals.error = "" THEN "none" ELSE locals.error
    /\ stitch_log' = <<>>
    /\ synth_log' = <<>>
    /\ commands' = commands + 1
    /\ UNCHANGED <<cc_vars, call_vars, disk_vars, rb, before, source_text, index_file, meta_file, hist>>

\* chunk_<relative_index>.wav instead of chunk_<id>.wav
ReviewOutWav_relative(updated_chunk) == ChunkWavName(updated_chunk.relative_index)

\* chunk_<id + 1>.wav
ReviewOutWav_next(updated_chunk) == ChunkWavName(updated_chunk.id + 1)

\* out_wav = project.chunks_dir / f"chunk_{updated_chunk.id:05d}.wav"
ReviewOutWav(updated_chunk) == ChunkWavName(updated_chunk.id)

\* lines 324-331: the chunk is synthesized again, then the rebuild
review_synth ==
    /\ pc = "review_synth"
    /\ LET updated_chunk == cmd.locals.updated_chunk
           out_wav == ReviewOutWav(updated_chunk)
       IN  \E result \in SynthResults :
             /\ synth_log' = Append(synth_log,
                                    [chunk |-> updated_chunk, out_wav |-> out_wav,
                                     result |-> result])
             /\ chunks_dir' = IF result = "written"
                              THEN (out_wav :> Speech(updated_chunk)) @@ chunks_dir
                              ELSE chunks_dir
             /\ IF result = "raised"
                THEN /\ pc' = "idle"
                     /\ outcome' = "error: RuntimeError"
                     /\ UNCHANGED <<rb, before>>
                ELSE /\ pc' = "rebuild"
                     /\ rb' = [NoRebuild EXCEPT !.index = cmd.locals.index,
                                                !.skip_first_chunks = cmd.skip_first_chunks]
                     /\ before' = [chunks_dir |-> chunks_dir', chapters_dir |-> chapters_dir,
                                   book_wav |-> book_wav]
                     /\ UNCHANGED outcome
    /\ UNCHANGED <<cc_vars, call_vars, chapters_dir, book_wav, stitch_log,
                   source_text, index_file, meta_file, cmd, hist, commands>>

-----------------------------------------------------------------------------
(* Spec: process and review run one after the other on one source document *)

Blank9 == <<<<>>, <<>>, <<>>, <<>>, <<>>, <<>>, <<>>, <<>>, <<>>>>

\* a markdown header and its text; a title and a gap; a page number, a gap, a
\* title and a gap
HeaderBlock == << <<"#", " ", "a">>, <<"b", " ", "b">> >>
TitleBlock == << <<"e", " ", "e", " ", "e">> >> \o Blank9
NumberTitleBlock == << <<"1", "2">> >> \o Blank9 \o TitleBlock

BlockPool == {HeaderBlock, NumberTitleBlock}

RECURSIVE BlockSeqs(_)
BlockSeqs(n) ==
    IF n = 0 THEN { <<>> }
    ELSE LET shorter == BlockSeqs(n - 1)
         IN  shorter \cup
             { Append(bs, b) : bs \in { q \in shorter : Len(q) = n - 1 }, b \in BlockPool }

\* the empty document included
Documents == { join(Concat(bs), <<NL>>) : bs \in BlockSeqs(MaxDocBlocks) }

Init ==
    /\ cc_args = <<>>
    /\ cc_cells = <<>>
    /\ cc_ret = <<>>
    /\ NoProject
    /\ NoCommand
    /\ source_text \in Documents
    /\ index_file = NoFile
    /\ meta_file = NoFile
    /\ cmd = NoCmd
    /\ synth_log = <<>>
    /\ hist = NoHist
    /\ commands = 0
    /\ NoCalls

Next ==
    \/ process_start
    \/ process_chapter
    \/ process_synth
    \/ process_save_index
    \/ process_save_meta
    \/ review_start
    \/ review_synth
    \/ rebuild_enter
    \/ rebuild_scan
    \/ rebuild_chapter
    \/ rebuild_book

Spec == Init /\ [][Next]_vars

-----------------------------------------------------------------------------
(* Properties of process and review, under Spec *)

\* the index and the metadata a review found on disk
ReviewIndex == load_index(cmd.started.index_file)
ReviewMeta == load_meta(cmd.started.meta_file)

\* the chunks the process that wrote the index synthesized under the id
Synthesized(id) == SelectSeq(hist.emitted, LAMBDA c : c.id = id)

\* a review runs or has run, of a chunk id the index records
ReviewOfRecorded ==
    /\ cmd.name = "review"
    /\ \E n \in 1..Len(ReviewIndex) : ReviewIndex[n].id = cmd.chunk

\* C1: for every chunk id the index records, the chunk review regenerates and
\* selects has the text and the relative_index of the chunk process synthesized
\* under that id.
C1_ReviewSelectsSameChunk ==
    ReviewOfRecorded =>
        /\ cmd.locals.error = ""
        /\ \A n \in 1..Len(Synthesized(cmd.chunk)) :
             /\ cmd.locals.original_chunk.text = Synthesized(cmd.chunk)[n].text
             /\ cmd.locals.original_chunk.relative_index
                  = Synthesized(cmd.chunk)[n].relative_index

\* C2: review detects chapters with the chapter_strategy and the
\* chapter_min_confidence process stored in the metadata, and derives the
\* chapter list process derived.
C2_ReviewDetectsAsStored ==
    (cmd.name = "review" /\ "chapters" \in DOMAIN cmd.locals) =>
        /\ cmd.locals.load_txt_args
             = << MetaGet(ReviewMeta, "chapter_strategy", ""),
                  MetaGet(ReviewMeta, "chapter_min_confidence", 0) >>
        /\ cmd.locals.chapters = hist.chapters

\* the review has synthesized and piper did not fail
ReviewSynthesized ==
    /\ cmd.name = "review"
    /\ synth_log # <<>>
    /\ synth_log[1].result # "raised"

\* C3: a review of chunk k that gets past synthesis has synthesized once, chunk
\* k into chunk k's file; every other chunk file, the index file and the
\* metadata file are as it found them, and the rebuild is given the index as
\* loaded, whatever the replacement text.
C3_ReviewWritesOnlyItsChunk ==
    ReviewSynthesized =>
        /\ Len(synth_log) = 1
        /\ synth_log[1].chunk.id = cmd.chunk
        /\ synth_log[1].out_wav = ChunkWavName(cmd.chunk)
        /\ DOMAIN chunks_dir \ {ChunkWavName(cmd.chunk)}
             = DOMAIN cmd.started.chunks_dir \ {ChunkWavName(cmd.chunk)}
        /\ \A f \in DOMAIN chunks_dir \ {ChunkWavName(cmd.chunk)} :
             chunks_dir[f] = cmd.started.chunks_dir[f]
        /\ synth_log[1].result = "written" =>
             chunks_dir[ChunkWavName(cmd.chunk)] = Speech(cmd.locals.updated_chunk)
        /\ index_file = cmd.started.index_file
        /\ meta_file = cmd.started.meta_file
        /\ rb.index = ReviewIndex

C3_Witness ==
    /\ ReviewSynthesized
    /\ pc = "idle"
    /\ outcome = "rebuild complete"
    /\ cmd.chunk = 1
    /\ cmd.new_text # <<>>
    /\ Len(ReviewIndex) >= 2
    /\ ChunkWavName(0) \in DOMAIN chunks_dir
    /\ ChunkWavName(1) \in DOMAIN cmd.started.chunks_dir
    /\ chunks_dir[ChunkWavName(1)] # cmd.started.chunks_dir[ChunkWavName(1)]

\* C4: the ids of the chunks one process pass emits are strictly increasing in
\* emission order, chapters that yield no chunk included.
C4_EmittedIdsIncrease ==
    cmd.name = "process" =>
        \A k, l \in 1..Len(cmd.emitted) : k < l => cmd.emitted[k].id < cmd.emitted[l].id

C4_Witness ==
    /\ cmd.name = "process"
    /\ pc = "process_save_meta"
    /\ Len(cmd.emitted) >= 2
    /\ Len(cmd.chapters) > Len(cmd.emitted)
    /\ cmd.emitted[1].chapter_index > 0
    /\ cmd.emitted[2].chapter_index > cmd.emitted[1].chapter_index + 1

-----------------------------------------------------------------------------
(* SpecChunk: chunk_chapter called MaxCalls times on one argument tuple *)

PiecePool ==
    { <<"a">>,
      <<"b", " ", "b">>,
      <<" ", "c", " ", "c", " ", "c">>,
      <<"d", NL, "d", " ">>,
      <<" ">>,
      <<>> }

RECURSIVE PieceSeqs(_)
PieceSeqs(n) ==
    IF n = 0 THEN { <<>> }
    ELSE LET shorter == PieceSeqs(n - 1)
         IN  shorter \cup { Append(ps, p) : ps \in { q \in shorter : Len(q) = n - 1 }, p \in PiecePool }

ChapterTexts == { join(ps, <<NL, NL>>) : ps \in PieceSeqs(MaxParas) }

\* a paragraph of n one-letter words
WordsOf(n) == join([ k \in 1..n |-> <<"w">> ], <<" ">>)

\* chapters of one to MaxParas paragraphs of ParaWords words each, chunked at
\* the target of the default preset
ScenarioTexts == { join([ k \in 1..n |-> WordsOf(ParaWords) ], <<NL, NL>>) : n \in 1..MaxParas }

ChunkInit ==
    /\ cc_args \in [chapter_text : ChapterTexts,
                    target : 1..MaxTarget,
                    chapter_index : 0..MaxChapterIndex,
                    starting_chunk_id : 0..MaxStartId]
                   \cup [chapter_text : ScenarioTexts,
                         target : {DefaultTargetChunkSecs},
                         chapter_index : 0..MaxChapterIndex,
                         starting_chunk_id : 0..MaxStartId]
    /\ cc_cells = <<>>
    /\ cc_ret = <<>>
    /\ NoProject
    /\ NoCommand
    /\ NoRun
    /\ NoCalls

chunk_chapter_call ==
    /\ Len(cc_ret) < MaxCalls
    /\ LET done == cc_run(cc_cells, cc_args.chapter_text, cc_args.target,
                          cc_args.chapter_index, cc_args.starting_chunk_id)
       IN  /\ cc_cells' = done
           /\ cc_ret' = Append(cc_ret, done.chunks)
    /\ UNCHANGED <<cc_args, disk_vars, rebuild_vars, run_vars, call_vars>>

ChunkNext == chunk_chapter_call

SpecChunk == ChunkInit /\ [][ChunkNext]_vars

\* C5: the k-th chunk a call returns (k from 0) has relative_index k, id
\* starting_chunk_id + k and the chapter_index it was called with.
C5_IndicesContiguous ==
    \A n \in 1..Len(cc_ret) : \A k \in 1..Len(cc_ret[n]) :
        /\ cc_ret[n][k].relative_index = k - 1
        /\ cc_ret[n][k].id = cc_args.starting_chunk_id + (k - 1)
        /\ cc_ret[n][k].chapter_index = cc_args.chapter_index

C5_Witness ==
    /\ Len(cc_ret) >= 1
    /\ Len(cc_ret[1]) >= 3
    /\ cc_args.starting_chunk_id > 0
    /\ cc_args.chapter_index > 0

ThreeParagraphs == join(<<WordsOf(ParaWords), WordsOf(ParaWords), WordsOf(ParaWords)>>, <<NL, NL>>)

\* C11: a chapter of three 50-word paragraphs chunked at target_chunk_secs = 30
\* comes back as two chunks, the first two paragraphs together and the third
\* alone.
C11_TwoThenOne ==
    (cc_args.chapter_text = ThreeParagraphs /\ cc_args.target = 30) =>
        \A n \in 1..Len(cc_ret) :
            /\ Len(cc_ret[n]) = 2
            /\ cc_ret[n][1].text = join(<<WordsOf(ParaWords), WordsOf(ParaWords)>>, <<NL, NL>>)
            /\ cc_ret[n][2].text = WordsOf(ParaWords)

-----------------------------------------------------------------------------
(* SpecDetect: detect or load_txt called once on a generated text *)

MaxBlocks == 3        \* blocks of lines a generated text is made of

\* the first lines of the blocks: markdown headers of level 1 and 2, a chapter
\* heading, a page number, a short sentence with a keyword, a plain line
HeadLines ==
    { <<"#", " ", "a">>, <<"#", "#", " ", "b", " ", "c">>, <<"C", "h", "a", "p", "t", "e", "r", " ", "1">>, <<"1", "2">>, <<"B", "o", "o", "k", " ", "t", "w", "o", ".">> }

\* the blank lines that follow the first line of a block
Gaps == { 1, 9 }

Blanks(n) == [ k \in 1..n |-> <<>> ]

TextBlocks == { <<head>> \o Blanks(gap) : head \in HeadLines, gap \in Gaps }

RECURSIVE TextBlockSeqs(_)
TextBlockSeqs(n) ==
    IF n = 0 THEN { <<>> }
    ELSE LET shorter == TextBlockSeqs(n - 1)
         IN  shorter \cup
             { Append(bs, b) : bs \in { q \in shorter : Len(q) = n - 1 }, b \in TextBlocks }

\* the seven-line text with a level-1 header on line 0 and on line 4
TwoHeaders == <<"#", " ", "I", "n", "t", "r", "o", NL, NL, "t", "e", "x", "t", NL, NL, "#", " ", "C", "h", "a", "p", "t", "e", "r", " ", "O", "n", "e", NL, NL, "m", "o", "r", "e", " ", "t", "e", "x", "t">>

\* a heading that is short, capitalised, holds a keyword, stands between blank
\* lines after a long gap, is centered and is followed by an indented line
FullScoreLine == <<NL, NL, NL, " ", " ", " ", " ", " ", " ", "C", "h", "a", "p", "t", "e", "r", " ", "o", "n", "e", NL, " ", " ", " ", " ", NL>>

\* texts that start with lines no boundary is found at, and the empty text
ExtraTexts ==
    { TwoHeaders, FullScoreLine, <<>>,
      <<"t", "e", "x", "t", NL, " ", " ", "#", "#", " ", "b", " ", "c", " ", " ", NL, "#", "n", "o", "s", "p", "a", "c", "e", NL, "#", "#", "#", " ", "d", "e", "e", "p", NL, "#", " ", "a">>,
      <<"x", NL, "y", NL, NL, NL, NL, NL, NL, "z">> }

DetectTexts ==
    { join(Concat(bs), <<NL>>) : bs \in TextBlockSeqs(MaxBlocks) \ { <<>> } } \cup ExtraTexts

\* min_confidence 0.5, 0.9, 1.05 and 1.1
DetectConfidences == { 5000, 9000, 10500, 11000 }

DetectInit ==
    /\ dt_args \in [fn : {"detect", "load_txt"},
                    text : DetectTexts,
                    strategy : Strategies,
                    min_confidence : DetectConfidences]
    /\ dt_ret = <<>>
    /\ pj_log = <<>>
    /\ cc_args = <<>>
    /\ cc_cells = <<>>
    /\ cc_ret = <<>>
    /\ NoProject
    /\ NoCommand
    /\ NoRun

\* ChapterDetector().detect(text, strategy, min_confidence)
detect_call ==
    /\ dt_args.fn = "detect"
    /\ dt_ret = <<>>
    /\ dt_ret' = << detect(dt_args.text, dt_args.strategy, dt_args.min_confidence) >>
    /\ UNCHANGED <<cc_vars, disk_vars, rebuild_vars, run_vars, dt_args, pj_log>>

\* load_txt(path, chapter_strategy, min_confidence)
load_txt_call ==
    /\ dt_args.fn = "load_txt"
    /\ dt_ret = <<>>
    /\ dt_ret' = << load_txt(dt_args.text, dt_args.strategy, dt_args.min_confidence) >>
    /\ UNCHANGED <<cc_vars, disk_vars, rebuild_vars, run_vars, dt_args, pj_log>>

DetectNext == detect_call \/ load_txt_call

SpecDetect == DetectInit /\ [][DetectNext]_vars

\* detect has returned
Detected == dt_args # <<>> /\ dt_args.fn = "detect" /\ dt_ret # <<>>

\* load_txt has returned
Loaded == dt_args # <<>> /\ dt_args.fn = "load_txt" /\ dt_ret # <<>>

\* C12: with the markdown, structured and heuristic strategies any two
\* boundaries of the result are at least 10 lines apart.
C12_BoundariesTenApart ==
    (Detected /\ dt_args.strategy \in {"markdown", "structured", "heuristic"}) =>
        \A k, l \in 1..Len(dt_ret[1]) :
            k # l => \/ dt_ret[1][k].line_index - dt_ret[1][l].line_index >= 10
                     \/ dt_ret[1][l].line_index - dt_ret[1][k].line_index >= 10

\* the stripped line is h "#", then whitespace, then text
HeaderOfLevel(ls, h) ==
    \E w \in 1..Len(ls) :
        /\ Len(ls) > h + w
        /\ \A i \in 1..h : ls[i] = "#"
        /\ \A i \in (h + 1)..(h + w) : IsSpace(ls[i])

\* the indices (from 0) of the lines that are headers of level 1 or 2
HeaderLines(text) ==
    { i \in 0..(Len(Lines(text)) - 1) :
        \E h \in {1, 2} : HeaderOfLevel(strip(Lines(text)[i + 1]), h) }

\* C13: with strategy markdown the result holds, in line order, one boundary
\* for every line whose stripped form is one or two "#", whitespace and text,
\* and no other; its confidence is 1.0 for "#" and 0.9 for "##" and its title
\* the text after the marker.  The seven-line text with "# Intro" on line 0 and
\* "# Chapter One" on line 4 gives two boundaries of confidence 1.0.
C13_MarkdownHeaders ==
    (Detected /\ dt_args.strategy = "markdown") =>
        /\ Len(dt_ret[1]) = Cardinality(HeaderLines(dt_args.text))
        /\ \A k \in 1..Len(dt_ret[1]) :
             LET b == dt_ret[1][k]
                 ls == strip(Lines(dt_args.text)[b.line_index + 1])
             IN  /\ b.line_index \in HeaderLines(dt_args.text)
                 /\ k > 1 => dt_ret[1][k - 1].line_index < b.line_index
                 /\ b.confidence = IF HeaderOfLevel(ls, 1) THEN 10000 ELSE 9000
                 /\ \E h \in {1, 2} : HeaderOfLevel(ls, h) /\ b.title = strip(SubSeq(ls, h + 1, Len(ls)))
        /\ dt_args.text = TwoHeaders =>
             /\ Len(dt_ret[1]) = 2
             /\ dt_ret[1][1].line_index = 0 /\ dt_ret[1][1].confidence = 10000
             /\ dt_ret[1][1].title = <<"I", "n", "t", "r", "o">>
             /\ dt_ret[1][2].line_index = 4 /\ dt_ret[1][2].confidence = 10000
             /\ dt_ret[1][2].title = <<"C", "h", "a", "p", "t", "e", "r", " ", "O", "n", "e">>

C13_Witness ==
    /\ Detected
    /\ dt_args.strategy = "markdown"
    /\ Len(Lines(dt_args.text)) = 5
    /\ Len(dt_ret[1]) = 2
    /\ dt_ret[1][1].line_index = 1 /\ dt_ret[1][1].confidence = 9000
    /\ dt_ret[1][2].line_index = 4 /\ dt_ret[1][2].confidence = 10000

\* C14: with a min_confidence above 1.0 the structured and the heuristic
\* strategy return no boundary, whatever the text.
C14_NothingAboveOne ==
    (Detected /\ dt_args.strategy \in {"structured", "heuristic"}
              /\ dt_args.min_confidence > 10000) =>
        dt_ret[1] = <<>>

\* the same at min_confidence 1.1 and above
C14_NothingFromOnePointOne ==
    (Detected /\ dt_args.strategy \in {"structured", "heuristic"}
              /\ dt_args.min_confidence >= 11000) =>
        dt_ret[1] = <<>>

\* the sum of the confidences of a list of boundaries
ConfidenceSum(bs) == SumConfidence(bs, 0)

\* the stages of auto in order, each with its output and whether it is accepted
AutoStages(text) ==
    << [output |-> _detect_markdown(text),
        accepted |-> /\ _detect_markdown(text) # <<>>
                     /\ ConfidenceSum(_detect_markdown(text)) > 8000 * Len(_detect_markdown(text))],
       [output |-> _detect_structured(text, 7000),
        accepted |-> Len(_detect_structured(text, 7000)) >= 3],
       [output |-> _detect_heuristic(text, 5000),
        accepted |-> Len(_detect_heuristic(text, 5000)) >= 3],
       [output |-> _detect_paragraph_breaks(text),
        accepted |-> TRUE] >>

\* C15: detect with strategy auto returns the output of the first of the stages
\* markdown, structured at 0.7, heuristic at 0.5, paragraph-gap that is
\* accepted, whatever min_confidence the caller gives.
C15_AutoFirstAccepted ==
    (Detected /\ dt_args.strategy = "auto") =>
        \E n \in 1..4 :
            /\ AutoStages(dt_args.text)[n].accepted
            /\ \A k \in 1..(n - 1) : ~AutoStages(dt_args.text)[k].accepted
            /\ dt_ret[1] = AutoStages(dt_args.text)[n].output

C15_Witness ==
    /\ Detected
    /\ dt_args.strategy = "auto"
    /\ dt_args.min_confidence = 11000
    /\ Len(dt_ret[1]) = 3
    /\ dt_ret[1][1].strategy = "structured:chapter_number"
    /\ _detect_heuristic(dt_args.text, 5000) # dt_ret[1]
    /\ _detect_structured(dt_args.text, dt_args.min_confidence) = <<>>

\* C16: detect with strategy none returns no boundary; whenever detection
\* returns none, load_txt returns one chapter, titled "Full Text", that is the
\* whole document.
C16_NoBoundaryOneChapter ==
    /\ (Detected /\ dt_args.strategy = "none") => dt_ret[1] = <<>>
    /\ (Loaded /\ detect(dt_args.text, dt_args.strategy, dt_args.min_confidence) = <<>>) =>
          /\ dt_ret[1].chapters = << dt_args.text >>
          /\ dt_ret[1].chapter_titles = << <<"F", "u", "l", "l", " ", "T", "e", "x", "t">> >>
    /\ (Loaded /\ dt_args.strategy = "none") => dt_ret[1].chapters = << dt_args.text >>

C16_Witness ==
    /\ Loaded
    /\ dt_args.strategy = "none"
    /\ Len(_detect_markdown(dt_args.text)) >= 2
    /\ dt_ret[1].chapters = << dt_args.text >>

\* the boundaries load_txt splits the text of the call at
LoadBoundaries == detect(dt_args.text, dt_args.strategy, dt_args.min_confidence)

\* line index (from 0) one past the last line of chapter k (from 1)
ChapterEnd(bs, k) ==
    IF k < Len(bs) THEN bs[k + 1].line_index ELSE Len(Lines(dt_args.text))

FallbackTitles == << <<"C", "h", "a", "p", "t", "e", "r", " ", "1">>, <<"C", "h", "a", "p", "t", "e", "r", " ", "2">>, <<"C", "h", "a", "p", "t", "e", "r", " ", "3">> >>

\* C17: with n >= 1 boundaries load_txt returns n chapters; chapter k holds
\* the lines from its boundary up to the next boundary (the last one up to the
\* end of the document), so the chapters in order are the lines from the first
\* boundary on and no line before it; the title is the boundary's title, or
\* "Chapter k" when it has none.
C17_ChapterPerBoundary ==
    (Loaded /\ LoadBoundaries # <<>>) =>
        \E bs \in {LoadBoundaries} : \E lines \in {Lines(dt_args.text)} :
            /\ Len(dt_ret[1].chapters) = Len(bs)
            /\ Len(dt_ret[1].chapter_titles) = Len(bs)
            /\ \A k \in 1..Len(bs) :
                  /\ bs[k].line_index < ChapterEnd(bs, k)
                  /\ Lines(dt_ret[1].chapters[k]) =
                        [ j \in 1..(ChapterEnd(bs, k) - bs[k].line_index) |->
                            lines[bs[k].line_index + j] ]
                  /\ dt_ret[1].chapter_titles[k] =
                        IF bs[k].title # <<>> THEN bs[k].title ELSE FallbackTitles[k]
            /\ Lines(join(dt_ret[1].chapters, <<NL>>)) =
                  [ j \in 1..(Len(lines) - bs[1].line_index) |-> lines[bs[1].line_index + j] ]

\* two chapters or more, lines before the first boundary, an untitled boundary
C17_Witness ==
    /\ Loaded
    /\ Len(dt_ret[1].chapters) >= 2
    /\ LoadBoundaries[1].line_index > 0
    /\ LoadBoundaries[2].title = <<>>
    /\ dt_ret[1].chapter_titles[2] = <<"C", "h", "a", "p", "t", "e", "r", " ", "2">>

-----------------------------------------------------------------------------
(* The project files on their own: SpecProject calls save_index, save_meta,
   load_index and load_meta of one BookProject in any order. *)

MaxProjectCalls == 4   \* calls on the project files in one behaviour

IndexChunkA ==
    to_dict([id |-> 0, chapter_index |-> 0, relative_index |-> 0,
             text |-> <<"O", "n", "e", " ", "t", "w", "o", ".">>, estimated_seconds |-> 6])
IndexChunkB ==
    to_dict([id |-> 1, chapter_index |-> 1, relative_index |-> 0,
             text |-> <<"T", "h", "r", "e", "e", ".">>, estimated_seconds |-> 3])

\* the lists given to save_index
SavedIndexes == { <<>>, <<IndexChunkA>>, <<IndexChunkB>>, <<IndexChunkA, IndexChunkB>> }

\* the dicts given to save_meta
SavedMetas ==
    { <<>>,
      [source_file |-> InputFile],
      [source_file |-> InputFile, preset |-> DefaultPreset, voice_model |-> VoiceModel,
       chapter_strategy |-> "auto", chapter_min_confidence |-> 5000] }

ProjectInit ==
    /\ NoCalls
    /\ cc_args = <<>>
    /\ cc_cells = <<>>
    /\ cc_ret = <<>>
    /\ NoProject
    /\ NoCommand
    /\ NoRun

\* project.save_index(index)
save_index_call ==
    /\ Len(pj_log) < MaxProjectCalls
    /\ \E index \in SavedIndexes :
          /\ index_file' = save_index(index_file, index)
          /\ pj_log' = Append(pj_log, [op |-> "save_index", value |-> index])
    /\ UNCHANGED <<cc_vars, disk_vars, rebuild_vars, dt_args, dt_ret,
                   source_text, meta_file, cmd, synth_log, hist, commands>>

\* project.load_index()
load_index_call ==
    /\ Len(pj_log) < MaxProjectCalls
    /\ pj_log' = Append(pj_log, [op |-> "load_index", value |-> load_index(index_file)])
    /\ UNCHANGED <<cc_vars, disk_vars, rebuild_vars, run_vars, dt_args, dt_ret>>

\* project.save_meta(meta)
save_meta_call ==
    /\ Len(pj_log) < MaxProjectCalls
    /\ \E meta \in SavedMetas :
          /\ meta_file' = save_meta(meta_file, meta)
          /\ pj_log' = Append(pj_log, [op |-> "save_meta", value |-> meta])
    /\ UNCHANGED <<cc_vars, disk_vars, rebuild_vars, dt_args, dt_ret,
                   source_text, index_file, cmd, synth_log, hist, commands>>

\* project.load_meta()
load_meta_call ==
    /\ Len(pj_log) < MaxProjectCalls
    /\ pj_log' = Append(pj_log, [op |-> "load_meta", value |-> load_meta(meta_file)])
    /\ UNCHANGED <<cc_vars, disk_vars, rebuild_vars, run_vars, dt_args, dt_ret>>

ProjectNext == save_index_call \/ load_index_call \/ save_meta_call \/ load_meta_call

SpecProject == ProjectInit /\ [][ProjectNext]_vars

\* the calls of the log whose operation is op, before call j
CallsBefore(op, j) == { i \in 1..(j - 1) : pj_log[i].op = op }

\* what the last call of op before call j was given; <<>> when there is none
LastGiven(op, j) ==
    IF CallsBefore(op, j) = {} THEN <<>> ELSE pj_log[MaxOf(CallsBefore(op, j))].value

\* C18: load_index returns what the most recent save_index was given and
\* load_meta what the most recent save_meta was given, whatever was saved
\* before and whatever was saved to the other file in between; before any save
\* they return the empty list and the empty dict.
C18_LoadReturnsLastSave ==
    \A j \in 1..Len(pj_log) :
        /\ pj_log[j].op = "load_index" => pj_log[j].value = LastGiven("save_index", j)
        /\ pj_log[j].op = "load_meta" => pj_log[j].value = LastGiven("save_meta", j)

\* a longer index saved, the metadata saved, a shorter index saved, then loaded
C18_Witness ==
    /\ Len(pj_log) = 4
    /\ pj_log[1].op = "save_index" /\ pj_log[1].value = <<IndexChunkA, IndexChunkB>>
    /\ pj_log[2].op = "save_meta" /\ pj_log[2].value # <<>>
    /\ pj_log[3].op = "save_index" /\ pj_log[3].value = <<IndexChunkB>>
    /\ pj_log[4].op = "load_index" /\ pj_log[4].value = <<IndexChunkB>>
    /\ load_meta(meta_file) = pj_log[2].value

-----------------------------------------------------------------------------
(* Failures of process and review, under Spec *)

\* the synthesize_chunk calls of process for which piper reported a failure
FailedSynths == { k \in 1..Len(synth_log) : synth_log[k].result # "written" }

\* C19: when piper reports a failure for a chunk during process, process ends
\* with an error at that call: the call is the last one (no later chunk, no
\* retry) and all_chunk_meta has no entry for the chunk.
C19_SynthFailureEndsProcess ==
    cmd.name = "process" =>
        \A k \in FailedSynths :
            /\ k = Len(synth_log)
            /\ pc = "idle"
            /\ outcome = "error: RuntimeError"
            /\ \A m \in 1..Len(cmd.all_chunk_meta) :
                  cmd.all_chunk_meta[m].id # synth_log[k].chunk.id

\* a step that starts review with a chunk id that no entry of the stored index has
ReviewOfAbsentId ==
    /\ pc = "idle"
    /\ commands' = commands + 1
    /\ cmd'.name = "review"
    /\ index_file.exists
    /\ \A m \in 1..Len(load_index(index_file)) : load_index(index_file)[m].id # cmd'.chunk

\* C20: review of a chunk id absent from the stored index stops with the
\* chunk-not-found error, calls neither synthesize_chunk nor the stitch, and
\* leaves the chunk, chapter and book audio, the index and the metadata as they
\* were.
C20_AbsentIdFailsUnchanged ==
    [][ReviewOfAbsentId =>
          /\ outcome' = "BadParameter: chunk id not found in project index"
          /\ pc' = "idle"
          /\ synth_log' = <<>>
          /\ stitch_log' = <<>>
          /\ UNCHANGED <<chunks_dir, chapters_dir, book_wav, index_file, meta_file>>]_vars

\* process is the running command
InProcess == cmd.name = "process" /\ pc # "idle"

\* the step of process that saves the index
IndexSaveStep == InProcess /\ pc = "process_chapter" /\ pc' = "process_save_meta"

\* every chunk the pass emitted was handed to synthesize_chunk, which returned
AllSynthesized ==
    /\ cmd.chapter_index >= Len(cmd.chapters)
    /\ cmd.chunks = <<>>
    /\ Len(synth_log) = Len(cmd.emitted)
    /\ \A k \in 1..Len(synth_log) :
          /\ synth_log[k].chunk = cmd.emitted[k]
          /\ synth_log[k].result # "raised"
          /\ cmd.all_chunk_meta[k] = to_dict(cmd.emitted[k])
    /\ Len(cmd.all_chunk_meta) = Len(cmd.emitted)

\* C21: process writes the index in one step only, after synthesize_chunk has
\* returned for every chunk of the pass, and never again in the same run; the
\* rebuild of process starts from the step that saves the metadata, with the
\* index already saved; a pass that synthesize_chunk aborts leaves the index
\* as it was.
C21_IndexSavedOnceAfterSynthesis ==
    [][InProcess =>
          /\ index_file' # index_file => IndexSaveStep
          /\ IndexSaveStep =>
                /\ AllSynthesized
                /\ load_index(index_file') = cmd.all_chunk_meta
          /\ pc \in {"process_save_meta", "rebuild", "rebuild_scan", "rebuild_chapters"} =>
                pc' \notin {"process_chapter", "process_synth", "process_save_meta"}
          /\ (pc # "rebuild" /\ pc' = "rebuild") =>
                /\ pc = "process_save_meta"
                /\ load_index(index_file) = cmd.all_chunk_meta
                /\ meta_file'.exists
                /\ rb'.index = cmd.all_chunk_meta
          /\ outcome' = "error: RuntimeError" =>
                /\ pc = "process_synth"
                /\ pc' = "idle"
                /\ index_file' = index_file]_vars

\* the second pass of a project is aborted at its second chunk; the index of
\* the first pass is on disk
C21_Witness ==
    /\ cmd.name = "process"
    /\ commands = 2
    /\ outcome = "error: RuntimeError"
    /\ Len(synth_log) = 2
    /\ index_file.exists
    /\ Len(load_index(index_file)) = 2

\* the five digits of the file name of a chunk id below 10
FiveDigits(id) == <<0, 0, 0, 0, id>>

ChunkParas(chunk) == split(chunk.text, <<NL, NL>>)

\* the words of the first j paragraphs of ps
RECURSIVE WordsUpTo(_, _)
WordsUpTo(ps, j) == IF j = 0 THEN 0 ELSE WordsUpTo(ps, j - 1) + WordCount(ps[j])

\* words * 60 / 160 seconds is above the target
AboveTarget(words) == words * 60 > cc_args.target * 160

\* C23: within a returned chunk every paragraph after the first was added with
\* the estimate of the chunk at or below the target, and the first paragraph of
\* every later chunk would have taken the chunk before it above the target;
\* so a chunk of two or more paragraphs is at or below the target and a chunk
\* above the target is one paragraph.
C23_GreedyBoundaries ==
    \A n \in 1..Len(cc_ret) : \A k \in 1..Len(cc_ret[n]) :
        \E ps \in {ChunkParas(cc_ret[n][k])} :
            /\ \A j \in 2..Len(ps) : ~AboveTarget(WordsUpTo(ps, j))
            /\ k < Len(cc_ret[n]) =>
                  AboveTarget(WordsUpTo(ps, Len(ps))
                              + WordCount(ChunkParas(cc_ret[n][k + 1])[1]))
            /\ Len(ps) >= 2 => cc_ret[n][k].estimated_seconds <= TargetEighths(cc_args.target)
            /\ cc_ret[n][k].estimated_seconds > TargetEighths(cc_args.target) => Len(ps) = 1
            /\ cc_ret[n][k].estimated_seconds * 160 = WordCount(cc_ret[n][k].text) * 60 * 8

\* a chunk of two paragraphs below the target, then a chunk that is one
\* paragraph above the target
C23_Witness ==
    /\ Len(cc_ret) >= 1
    /\ Len(cc_ret[1]) = 2
    /\ Len(ChunkParas(cc_ret[1][1])) = 2
    /\ cc_ret[1][2].estimated_seconds > TargetEighths(cc_args.target)

-----------------------------------------------------------------------------
(* SpecRebuildTwice: _rebuild_audio_from_index called a second time with the  *)
(* same index and skip_first_chunks, on the directory the first call left     *)

\* the second call _rebuild_audio_from_index(project, index, skip_first_chunks)
rebuild_again ==
    /\ pc = "idle"
    /\ cmd = NoCmd
    /\ cmd' = [name |-> "rebuild", first_log |-> stitch_log, first_outcome |-> outcome]
    /\ pc' = "rebuild"
    /\ outcome' = "none"
    /\ stitch_log' = <<>>
    /\ before' = Snapshot
    /\ UNCHANGED <<cc_vars, call_vars, disk_vars, rb,
                   source_text, index_file, meta_file, synth_log, hist, commands>>

RebuildTwiceNext == RebuildNext \/ rebuild_again

SpecRebuildTwice == RebuildInit /\ [][RebuildTwiceNext]_vars

\* what a stitch call was asked: the input list and the output path
Asked(log) ==
    [ n \in 1..Len(log) |-> [wav_paths |-> log[n].wav_paths, output_path |-> log[n].output_path] ]

\* neither call ended on a failure of ffmpeg
BothStitched == cmd.first_outcome # "error: ffmpeg" /\ outcome' # "error: ffmpeg"

\* C24: when the second call of the rebuild ends, it has issued the stitch
\* calls of the first call, with the same input lists and output paths in the
\* same order, and ends as the first did; no step of either call changes the
\* index, the metadata or a chunk file.
C24_RebuildIdempotent ==
    [][/\ UNCHANGED <<chunks_dir, index_file, meta_file>>
       /\ pc # "idle" => (rb'.index = rb.index /\ rb'.skip_first_chunks = rb.skip_first_chunks)
       /\ (cmd.name = "rebuild" /\ pc # "idle" /\ pc' = "idle" /\ BothStitched) =>
             /\ Asked(stitch_log') = Asked(cmd.first_log)
             /\ outcome' = cmd.first_outcome]_vars

\* both calls stitched two chapters and the book
C24_Witness ==
    /\ cmd.name = "rebuild"
    /\ pc = "idle"
    /\ outcome = "rebuild complete"
    /\ cmd.first_outcome = "rebuild complete"
    /\ Len(stitch_log) = 3
    /\ Len(cmd.first_log) = 3
    /\ rb.skip_first_chunks > 0
    /\ \E i \in 1..Len(rb.index) : rb.index[i].file \notin DOMAIN chunks_dir

-----------------------------------------------------------------------------
(* SpecRebuildLive: the rebuild runs while chunk files of the index are still *)
(* being written                                                              *)

\* synthesize_chunk of another pass writes a chunk file of the index that was
\* not there yet; no file is removed
chunk_written ==
    /\ pc # "idle"
    /\ \E i \in 1..Len(rb.index) :
          /\ rb.index[i].file \notin DOMAIN chunks_dir
          /\ chunks_dir' = (rb.index[i].file :> ChunkAudio(rb.index[i].file)) @@ chunks_dir
    /\ UNCHANGED <<cc_vars, call_vars, run_vars, rebuild_vars, chapters_dir, book_wav>>

RebuildLiveNext == RebuildNext \/ chunk_written

SpecRebuildLive == RebuildInit /\ [][RebuildLiveNext]_vars

\* the entries of chapter c left after the skip
Kept(c) ==
    { e \in IndexEntriesOf(rb.index) :
        e.chapter_index = c /\ IdRank(e) >= rb.skip_first_chunks }

\* C25: with chunk files appearing while the rebuild runs, the rebuild does not
\* fail for want of input and gives no stitch call an empty list; the list of
\* every chapter holds files of that chapter's entries left after the skip,
\* each once, in ascending id order, and among them every file that was there
\* when the rebuild started.
C25_RebuildWhileSynthesizing ==
    /\ outcome # "error: ValueError"
    /\ \A n \in 1..Len(stitch_log) :
          stitch_log[n].wav_paths # <<>> /\ stitch_log[n].wav_list # <<>>
    /\ \A n \in 1..Len(ChapterStitches) :
          \E call \in {ChapterStitches[n]} :
              /\ \A k \in 1..Len(call.wav_paths) :
                    call.wav_paths[k] \in { e.file : e \in Kept(call.chapter_idx) }
              /\ \A k, l \in 1..Len(call.wav_paths) :
                    k < l => EntryOfFile(call.wav_paths[k]).id < EntryOfFile(call.wav_paths[l]).id
              /\ { e.file : e \in Survivors(call.chapter_idx) }
                    \subseteq { call.wav_paths[k] : k \in 1..Len(call.wav_paths) }

-----------------------------------------------------------------------------
(* More properties of the detector, under SpecDetect *)

\* C26: the structured strategy returns at most one boundary for a line, tagged
\* with the first pattern of STRUCTURED_PATTERNS that matches the line, and
\* tags no line that has a lower-case letter structured:caps_title.
C26_FirstRuleAndCapsOnly ==
    (Detected /\ dt_args.strategy = "structured") =>
        \E bs \in {dt_ret[1]} : \E lines \in {Lines(dt_args.text)} :
            /\ \A k, l \in 1..Len(bs) : k < l => bs[k].line_index < bs[l].line_index
            /\ \A k \in 1..Len(bs) :
                  /\ bs[k].title = strip(lines[bs[k].line_index + 1])
                  /\ bs[k].title # <<>>
                  /\ FirstPattern(bs[k].title) # 0
                  /\ bs[k].strategy = STRUCTURED_PATTERNS[FirstPattern(bs[k].title)].strategy
                  /\ bs[k].strategy = "structured:caps_title" =>
                        \A j \in 1..Len(bs[k].title) : bs[k].title[j] \notin Lower

-----------------------------------------------------------------------------
(* More properties of chunk_chapter, under SpecChunk *)

\* the paragraphs of the chunks of a returned list, in the order of the list
ReturnedParas(chunks) == Concat([ k \in 1..Len(chunks) |-> ChunkParas(chunks[k]) ])

\* C27: the paragraphs of the returned chunks, read in id order, are the
\* trimmed non-empty paragraphs of the chapter text in their order, each once;
\* no chunk is empty; a chapter with no such paragraph returns no chunk.
C27_ParagraphsPreserved ==
    \A n \in 1..Len(cc_ret) :
        /\ ReturnedParas(cc_ret[n]) = Paragraphs(cc_args.chapter_text)
        /\ \A k \in 1..Len(cc_ret[n]) :
              /\ strip(cc_ret[n][k].text) # <<>>
              /\ k > 1 => cc_ret[n][k - 1].id < cc_ret[n][k].id
        /\ Paragraphs(cc_args.chapter_text) = <<>> => cc_ret[n] = <<>>

\* two paragraphs and a blank piece between them come back as two chunks
C27_Witness ==
    /\ Len(cc_ret) >= 1
    /\ Len(cc_ret[1]) = 2
    /\ Len(Paragraphs(cc_args.chapter_text)) = 2
    /\ Len(split(cc_args.chapter_text, <<NL, NL>>)) = 3
    /\ ~NonBlank(split(cc_args.chapter_text, <<NL, NL>>)[2])

\* C28: with strategy auto a text that has a markdown header line, one or two
\* "#", gets the output of the markdown strategy, one boundary per header line;
\* a result that is not the markdown output comes from a text without any.
C28_AutoTakesMarkdown ==
    (Detected /\ dt_args.strategy = "auto") =>
        /\ HeaderLines(dt_args.text) # {} =>
              /\ dt_ret[1] = detect(dt_args.text, "markdown", dt_args.min_confidence)
              /\ { dt_ret[1][k].line_index : k \in 1..Len(dt_ret[1]) } = HeaderLines(dt_args.text)
              /\ \A k \in 1..Len(dt_ret[1]) :
                    dt_ret[1][k].strategy = "markdown" /\ dt_ret[1][k].confidence \in {9000, 10000}
        /\ (\E k \in 1..Len(dt_ret[1]) : dt_ret[1][k].strategy # "markdown") =>
              HeaderLines(dt_args.text) = {}

\* headers of level 2 only, average 0.9, in a text where the paragraph-gap
\* stage would return something else
C28_Witness ==
    /\ Detected
    /\ dt_args.strategy = "auto"
    /\ dt_ret[1] # <<>>
    /\ \A k \in 1..Len(dt_ret[1]) : dt_ret[1][k].confidence = 9000
    /\ _detect_paragraph_breaks(dt_args.text) # <<>>
    /\ _detect_structured(dt_args.text, 7000) # <<>>

-----------------------------------------------------------------------------
(* SpecPipeline: one turn of the chapter loop of process, the chapter cleaned *)
(* and then chunked                                                           *)

\* cli.py lines 165-173: cleaned = clean_text(chapter_text), then
\* chunk_chapter(cleaned, config, chapter_index, starting_chunk_id=chunk_id)
clean_and_chunk ==
    /\ cc_ret = <<>>
    /\ \E cleaned \in { clean_text(cc_args.chapter_text) } :
       \E chunks \in { chunk_chapter(cleaned, cc_args.target, cc_args.chapter_index,
                                     cc_args.starting_chunk_id) } :
          cc_ret' = <<chunks>>
    /\ UNCHANGED <<cc_args, cc_cells, disk_vars, rebuild_vars, run_vars, call_vars>>

PipelineNext == clean_and_chunk

SpecPipeline == ChunkInit /\ [][PipelineNext]_vars

\* C29: a chapter of two or more blank-line separated paragraphs, none of
\* which cleaning empties, whose cleaned words are estimated above the target
\* comes out of clean-then-chunk as more than one chunk.
C29_ParagraphsSurviveCleaning ==
    (/\ cc_ret # <<>>
     /\ Len(Paragraphs(cc_args.chapter_text)) >= 2
     /\ \A k \in 1..Len(Paragraphs(cc_args.chapter_text)) :
           clean_text(Paragraphs(cc_args.chapter_text)[k]) # <<>>
     /\ WordCount(clean_text(cc_args.chapter_text)) * 60 > cc_args.target * 160) =>
        Len(cc_ret[1]) > 1

=============================================================================
